---- MODULE Spec2Model ----
(***************************************************************************)
(* Desired-state reconciliation of a GTM workspace: the name index, the    *)
(* canonical form, the name-based diff, tag->trigger reference resolution  *)
(* and the two sync orchestrators (WorkspaceWorkflowManager and            *)
(* ContainerManager), run against an in-memory remote store.               *)
(*                                                                         *)
(* Strings that the code trims, lower-cases or compares are sequences of   *)
(* character codes; an entity (a Python dict) is a function from its keys  *)
(* to its values; a Python list is a sequence.                             *)
(***************************************************************************)
EXTENDS Integers, Sequences, FiniteSets, TLC

VARIABLES
    mgr,              \* which orchestrator the caller invoked
    pc,               \* position inside the running call
    desired,          \* the desired snapshot passed by the caller
    dry_run, delete_missing, update_existing,   \* the call's flags
    store,            \* remote store: the entities of each collection
    next_id,          \* remote store: the next id of each collection
    log,              \* mutating calls the remote store received in this call
    summary,          \* the summary being built / returned
    var_by_name, trig_by_name, tag_by_name,     \* indexes of the lists fetched
    trigger_name_to_id,                         \* the per-call name -> id map
    err,              \* the error the call raised ("none" while it has not)
    err_args,         \* the names the error's message quotes
    run,              \* number of the sync call on this store (1 = first)
    current_snapshot, \* the current snapshot, or entity, handed to a pure function
    diff_out,         \* what the pure function, or the publish call, returned
    fail_at,          \* remote store: the number of the mutating call it rejects (0 = none)
    heap,             \* the objects of the running call, by identity
    container,        \* remote container: its workspaces and how it answers
    frame             \* locals of the running publish call

vars == <<mgr, pc, desired, dry_run, delete_missing, update_existing, store,
          next_id, log, summary, var_by_name, trig_by_name, tag_by_name,
          trigger_name_to_id, err, err_args, run, current_snapshot, diff_out,
          fail_at, heap, container, frame>>

publish_vars == <<container, frame>>

diff_vars == <<current_snapshot, diff_out>>

----------------------------------------------------------------------------
(* Strings *)

IsSpace(c) == c \in {9, 10, 11, 12, 13, 32}

LowerChar(c) == IF c >= 65 /\ c =< 90 THEN c + 32 ELSE c

RECURSIVE LStrip(_)
LStrip(s) == IF s # <<>> /\ IsSpace(Head(s)) THEN LStrip(Tail(s)) ELSE s

RECURSIVE RStrip(_)
RStrip(s) ==
    IF s # <<>> /\ IsSpace(s[Len(s)]) THEN RStrip(SubSeq(s, 1, Len(s) - 1)) ELSE s

\* str.strip()
Strip(s) == RStrip(LStrip(s))

\* str.lower()
Lower(s) == [i \in 1..Len(s) |-> LowerChar(s[i])]

\* _lower(s): s.strip().lower()
LowerName(s) == Lower(Strip(s))

\* lexicographic order of two strings (Python's str <)
RECURSIVE StrLess(_, _)
StrLess(a, b) ==
    IF b = <<>> THEN FALSE
    ELSE IF a = <<>> THEN TRUE
    ELSE IF Head(a) # Head(b) THEN Head(a) < Head(b)
    ELSE StrLess(Tail(a), Tail(b))

\* sorted(xs, key=lambda x: x.lower()): a stable sort, by insertion
RECURSIVE InsertByLower(_, _)
InsertByLower(sorted, x) ==
    IF sorted = <<>> THEN <<x>>
    ELSE IF StrLess(Lower(x), Lower(sorted[Len(sorted)])) 
         THEN Append(InsertByLower(SubSeq(sorted, 1, Len(sorted) - 1), x),
                     sorted[Len(sorted)])
         ELSE Append(sorted, x)

RECURSIVE SortByLower(_)
SortByLower(xs) ==
    IF xs = <<>> THEN <<>>
    ELSE InsertByLower(SortByLower(SubSeq(xs, 1, Len(xs) - 1)), xs[Len(xs)])

Range(s) == {s[i] : i \in 1..Len(s)}

----------------------------------------------------------------------------
(* Entities *)

\* the three collections and the key holding each one's server id
Collections == {"variables", "triggers", "tags"}

IdKey(coll) ==
    CASE coll = "variables" -> "variableId"
      [] coll = "triggers" -> "triggerId"
      [] coll = "tags" -> "tagId"

HasKey(e, k) == k \in DOMAIN e

\* isinstance(name, str) and name.strip()
HasName(e) == HasKey(e, "name") /\ Strip(e["name"]) # <<>>

\* dict(e) with key k removed
DropKey(e, k) == [x \in DOMAIN e \ {k} |-> e[x]]

\* dict(e) with e[k] = v
SetKey(e, k, v) == [x \in DOMAIN e \cup {k} |-> IF x = k THEN v ELSE e[x]]

\* an entity without the keys of a set
WithoutKeys(e, keys) == [k \in DOMAIN e \ keys |-> e[k]]

\* workflow_manager._DYNAMIC_FIELDS
DYNAMIC_FIELDS ==
    {"accountId", "containerId", "workspaceId", "path", "fingerprint",
     "tagId", "triggerId", "variableId"}

\* k.startswith("__"), over the keys entities carry here
StartsWithDunder(k) == k \in {"__comment"}

\* strip_dynamic_fields_deep on an entity whose values are scalars or lists
\* of scalars (nothing nested to recurse into)
strip_dynamic_fields_deep(e) ==
    [k \in {x \in DOMAIN e : x \notin DYNAMIC_FIELDS /\ ~StartsWithDunder(x)}
        |-> e[k]]

\* normalize_for_diff: strip, then _stable_jsonish, which sorts the keys (a
\* function has no key order to sort) and sorts only lists of dicts; the
\* lists entities carry here hold scalars and keep their order
normalize_for_diff(e) == strip_dynamic_fields_deep(e)

----------------------------------------------------------------------------
(* Name index: an insertion-ordered dict, as a sequence of [k, e] entries *)

IndexHas(idx, k) == \E i \in 1..Len(idx) : idx[i].k = k

IndexGet(idx, k) == idx[CHOOSE i \in 1..Len(idx) : idx[i].k = k].e

IndexKeys(idx) == {idx[i].k : i \in 1..Len(idx)}

\* out[k] = e
IndexPut(idx, k, e) ==
    IF IndexHas(idx, k)
    THEN [i \in 1..Len(idx) |-> IF idx[i].k = k THEN [k |-> k, e |-> e] ELSE idx[i]]
    ELSE Append(idx, [k |-> k, e |-> e])

IndexDel(idx, k) == SelectSeq(idx, LAMBDA x : x.k # k)

RECURSIVE IndexFrom(_, _)
IndexFrom(out, entities) ==
    IF entities = <<>> THEN out
    ELSE LET e == Head(entities) IN
         IndexFrom(IF HasName(e) THEN IndexPut(out, LowerName(e["name"]), e) ELSE out,
                   Tail(entities))

\* workflow_manager._index_by_name
index_by_name(entities) == IndexFrom(<<>>, entities)

----------------------------------------------------------------------------
(* The remote store: one insertion-ordered dict of entities per collection, *)
(* keyed by lower-cased name, and one id counter per collection.  A call    *)
(* state `acc` carries the store with what the running call has built.      *)

\* an entity's API path: the workspace path, the collection and the id
PathOf(coll, id) == <<coll, id>>

NoPath == <<>>

\* _BaseFakeWorkspaceResourceManager.create
\* the remote store rejects the call it is about to receive: the request's
\* execute() raises, and the error leaves execute_with_retry as it is
Rejected(acc) == fail_at # 0 /\ Len(acc.log) + 1 = fail_at

StoreCreate(acc, coll, body) ==
    IF Rejected(acc) THEN [acc EXCEPT !.err = "remote_error"] ELSE
    LET id == acc.next_id[coll]
        withId == SetKey(body, IdKey(coll), id)
        created == SetKey(SetKey(withId, "path", PathOf(coll, id)), "fingerprint", "fp")
    IN [acc EXCEPT !.next_id[coll] = id + 1,
                   !.store[coll] = IndexPut(@, LowerName(body["name"]), created),
                   !.log = Append(@, [op |-> "create", coll |-> coll, body |-> body,
                                      ret |-> created]),
                   !.ret = created]

\* _BaseFakeWorkspaceResourceManager.update
StoreUpdate(acc, coll, entity_path, body, fingerprint) ==
    IF Rejected(acc) THEN [acc EXCEPT !.err = "remote_error"] ELSE
    LET key == LowerName(body["name"])
        existing == IndexGet(acc.store[coll], key)
        merged == [k \in DOMAIN existing \cup DOMAIN body |->
                      IF k \in DOMAIN body THEN body[k] ELSE existing[k]]
        updated == SetKey(SetKey(merged, "path", entity_path), "fingerprint", "fp2")
    IN [acc EXCEPT !.store[coll] = IndexPut(@, key, updated),
                   !.log = Append(@, [op |-> "update", coll |-> coll,
                                      path |-> entity_path, body |-> body,
                                      fingerprint |-> fingerprint]),
                   !.ret = updated]

\* _BaseFakeWorkspaceResourceManager.delete: the first entity with that path
StoreDelete(acc, coll, entity_path) ==
    IF Rejected(acc) THEN [acc EXCEPT !.err = "remote_error"] ELSE
    LET hits == {i \in 1..Len(acc.store[coll]) :
                    HasKey(acc.store[coll][i].e, "path")
                    /\ acc.store[coll][i].e["path"] = entity_path}
        first == CHOOSE i \in hits : \A j \in hits : i =< j
    IN [acc EXCEPT !.store[coll] =
                       IF hits = {} THEN @
                       ELSE SubSeq(@, 1, first - 1) \o SubSeq(@, first + 1, Len(@)),
                   !.log = Append(@, [op |-> "delete", coll |-> coll,
                                      path |-> entity_path])]

\* list_*_from_workspace_path: the collection's entities, in stored order
StoreList(st, coll) == [i \in 1..Len(st[coll]) |-> st[coll][i].e]

----------------------------------------------------------------------------
(* WorkspaceWorkflowManager: helpers *)

\* _merge_desired_into_current on two entities: every desired key overwrites
\* (None included), the other keys of the current entity are kept; a list
\* or a scalar of the desired entity replaces the current value
merge_desired_into_current(current, desired_e) ==
    [k \in DOMAIN current \cup DOMAIN desired_e |->
        IF k \in DOMAIN desired_e THEN desired_e[k] ELSE current[k]]

\* _entity_path_from_workspace
entity_path_from_workspace(coll, entity) ==
    IF HasKey(entity, "path") THEN entity["path"]
    ELSE IF HasKey(entity, IdKey(coll)) THEN PathOf(coll, entity[IdKey(coll)])
    ELSE NoPath

\* a faulty variant: no fingerprint taken from the existing entity
FingerprintOmitted(entity) == "None"

\* existing.get("fingerprint")
FingerprintOf(entity) ==
    IF HasKey(entity, "fingerprint") THEN entity["fingerprint"] ELSE "None"

\* a faulty variant: the name looked up trimmed but not lower-cased
RECURSIVE resolve_trigger_ids_case_sensitive(_, _)
resolve_trigger_ids_case_sensitive(trigger_names, name_to_id) ==
    IF trigger_names = <<>> THEN [ok |-> TRUE, ids |-> <<>>, missing |-> <<>>]
    ELSE LET raw == Head(trigger_names)
             rest == resolve_trigger_ids_case_sensitive(Tail(trigger_names), name_to_id)
         IN IF Strip(raw) = <<>> THEN rest
            ELSE IF Strip(raw) \notin DOMAIN name_to_id
                 THEN [ok |-> FALSE, ids |-> <<>>, missing |-> raw]
                 ELSE [ok |-> rest.ok,
                       ids |-> IF rest.ok THEN <<name_to_id[Strip(raw)]>> \o rest.ids
                               ELSE <<>>,
                       missing |-> rest.missing]

\* _resolve_trigger_ids: blank names are skipped, a name the map lacks raises
RECURSIVE resolve_trigger_ids(_, _)
resolve_trigger_ids(trigger_names, name_to_id) ==
    IF trigger_names = <<>> THEN [ok |-> TRUE, ids |-> <<>>, missing |-> <<>>]
    ELSE LET raw == Head(trigger_names)
             rest == resolve_trigger_ids(Tail(trigger_names), name_to_id)
         IN IF Strip(raw) = <<>> THEN rest
            ELSE IF LowerName(raw) \notin DOMAIN name_to_id
                 THEN [ok |-> FALSE, ids |-> <<>>, missing |-> raw]
                 ELSE [ok |-> rest.ok,
                       ids |-> IF rest.ok THEN <<name_to_id[LowerName(raw)]>> \o rest.ids
                               ELSE <<>>,
                       missing |-> rest.missing]

\* a faulty variant: a name the map lacks is dropped instead of raising
ResolveRoleDroppingMissing(r, names_key, id_key, name_to_id) ==
    IF r.err # "none" THEN r
    ELSE IF HasKey(r.tag, names_key) /\ HasKey(r.tag, id_key)
         THEN [r EXCEPT !.err = "ambiguous_reference",
                        !.args = [tag |-> r.tag["name"]]]
    ELSE IF HasKey(r.tag, names_key)
         THEN LET res == resolve_trigger_ids(r.tag[names_key], name_to_id)
              IN [r EXCEPT !.tag = DropKey(SetKey(r.tag, id_key, res.ids), names_key)]
    ELSE r

\* one role of _tag_with_resolved_triggers: names_key resolved into id_key
ResolveRole(r, names_key, id_key, name_to_id) ==
    IF r.err # "none" THEN r
    ELSE IF HasKey(r.tag, names_key) /\ HasKey(r.tag, id_key)
         THEN [r EXCEPT !.err = "ambiguous_reference",
                        !.args = [tag |-> r.tag["name"]]]
    ELSE IF HasKey(r.tag, names_key)
         THEN LET res == resolve_trigger_ids(r.tag[names_key], name_to_id)
              IN IF res.ok
                 THEN [r EXCEPT !.tag = DropKey(SetKey(r.tag, id_key, res.ids), names_key)]
                 ELSE [r EXCEPT !.err = "missing_reference",
                                !.args = [tag |-> r.tag["name"], trigger |-> res.missing]]
    ELSE r

\* a faulty variant: a tag left without firing ids is given an empty list
tag_with_resolved_triggers_defaulting_ids(tag, name_to_id) ==
    LET r == ResolveRole(
                 ResolveRole([err |-> "none", args |-> <<>>, tag |-> tag],
                             "firingTriggerNames", "firingTriggerId", name_to_id),
                 "blockingTriggerNames", "blockingTriggerId", name_to_id)
    IN IF r.err = "none" /\ ~HasKey(r.tag, "firingTriggerId")
       THEN [r EXCEPT !.tag = SetKey(r.tag, "firingTriggerId", <<>>)]
       ELSE r

\* _tag_with_resolved_triggers: the firing role, then the blocking role
tag_with_resolved_triggers(tag, name_to_id) ==
    ResolveRole(
        ResolveRole([err |-> "none", args |-> <<>>, tag |-> tag],
                    "firingTriggerNames", "firingTriggerId", name_to_id),
        "blockingTriggerNames", "blockingTriggerId", name_to_id)

\* _init_summary (the four lists of each entity type)
init_summary ==
    [c \in Collections |->
        [created |-> <<>>, updated |-> <<>>, deleted |-> <<>>, skipped |-> <<>>]]

\* summary[coll][cat].append(display_name)
Record(acc, coll, cat, display_name) ==
    [acc EXCEPT !.summary[coll][cat] = Append(@, display_name)]

\* _summarize_list
summarize_list(value) == SortByLower(SelectSeq(value, LAMBDA v : Strip(v) # <<>>))

\* a faulty variant: the summary returned as the loops filled it
finalize_summary_as_recorded(sm) == sm

\* _finalize_summary
finalize_summary(sm) ==
    [c \in Collections |->
        [created |-> summarize_list(sm[c].created),
         updated |-> summarize_list(sm[c].updated),
         deleted |-> summarize_list(sm[c].deleted),
         skipped |-> summarize_list(sm[c].skipped)]]

\* the state a call works on: the store, the calls it received, the summary,
\* the trigger name -> id map, the error raised and the last call's return
CallState ==
    [store |-> store, next_id |-> next_id, log |-> log, summary |-> summary,
     map |-> trigger_name_to_id, err |-> err, args |-> err_args, ret |-> <<>>]

Raise(acc, e) == [acc EXCEPT !.err = e]

\* a raise whose message quotes names
RaiseWith(acc, e, args) == [acc EXCEPT !.err = e, !.args = args]

----------------------------------------------------------------------------
(* WorkspaceWorkflowManager.sync_workspace: the three upsert loops *)

\* a faulty variant: an existing variable updated whatever update_existing says
sync_variable_always_updating(acc, name_lower, desired_var, current_idx) ==
    LET display_name == desired_var["name"] IN
    IF ~IndexHas(current_idx, name_lower)
    THEN LET a == Record(acc, "variables", "created", display_name) IN
         IF ~dry_run
         THEN StoreCreate(a, "variables", strip_dynamic_fields_deep(desired_var))
         ELSE a
    ELSE LET existing == IndexGet(current_idx, name_lower) IN
    IF normalize_for_diff(desired_var) = normalize_for_diff(existing)
    THEN Record(acc, "variables", "skipped", display_name)
    ELSE LET a == Record(acc, "variables", "updated", display_name)
             merged == merge_desired_into_current(existing, desired_var)
             body == strip_dynamic_fields_deep(merged)
             path == entity_path_from_workspace("variables", existing)
         IN IF dry_run THEN a
            ELSE IF path = NoPath THEN Raise(a, "missing_path")
            ELSE StoreUpdate(a, "variables", path, body, FingerprintOf(existing))

\* one iteration of _sync_variables' loop
sync_variable(acc, name_lower, desired_var, current_idx) ==
    LET display_name == desired_var["name"] IN
    IF ~IndexHas(current_idx, name_lower)
    THEN LET a == Record(acc, "variables", "created", display_name) IN
         IF ~dry_run
         THEN StoreCreate(a, "variables", strip_dynamic_fields_deep(desired_var))
         ELSE a
    ELSE LET existing == IndexGet(current_idx, name_lower) IN
    IF ~update_existing THEN Record(acc, "variables", "skipped", display_name)
    ELSE IF normalize_for_diff(desired_var) = normalize_for_diff(existing)
    THEN Record(acc, "variables", "skipped", display_name)
    ELSE LET a == Record(acc, "variables", "updated", display_name)
             merged == merge_desired_into_current(existing, desired_var)
             body == strip_dynamic_fields_deep(merged)
             path == entity_path_from_workspace("variables", existing)
         IN IF dry_run THEN a
            ELSE IF path = NoPath THEN Raise(a, "missing_path")
            ELSE StoreUpdate(a, "variables", path, body, FingerprintOf(existing))

RECURSIVE sync_variables_loop(_, _, _)
sync_variables_loop(acc, items, current_idx) ==
    IF items = <<>> \/ acc.err # "none" THEN acc
    ELSE sync_variables_loop(
             sync_variable(acc, Head(items).k, Head(items).e, current_idx),
             Tail(items), current_idx)

\* the name -> id map _sync_triggers builds from the triggers it fetched
RECURSIVE name_to_id_from(_, _)
name_to_id_from(out, triggers) ==
    IF triggers = <<>> THEN out
    ELSE LET t == Head(triggers) IN
         name_to_id_from(
             IF HasName(t) /\ HasKey(t, "triggerId")
             THEN SetKey(out, LowerName(t["name"]), t["triggerId"]) ELSE out,
             Tail(triggers))

\* one iteration of _sync_triggers' loop
sync_trigger(acc, name_lower, desired_trig, current_idx) ==
    LET display_name == desired_trig["name"] IN
    IF ~IndexHas(current_idx, name_lower)
    THEN LET a == Record(acc, "triggers", "created", display_name) IN
         IF ~dry_run
         THEN LET c == StoreCreate(a, "triggers", strip_dynamic_fields_deep(desired_trig))
              IN IF c.err # "none" THEN c
                 ELSE IF HasKey(c.ret, "triggerId")
                 THEN [c EXCEPT !.map = SetKey(@, name_lower, c.ret["triggerId"])]
                 ELSE c
         ELSE a
    ELSE LET existing == IndexGet(current_idx, name_lower) IN
    IF ~update_existing THEN Record(acc, "triggers", "skipped", display_name)
    ELSE IF normalize_for_diff(desired_trig) = normalize_for_diff(existing)
    THEN Record(acc, "triggers", "skipped", display_name)
    ELSE LET a == Record(acc, "triggers", "updated", display_name)
             merged == merge_desired_into_current(existing, desired_trig)
             body == strip_dynamic_fields_deep(merged)
             path == entity_path_from_workspace("triggers", existing)
         IN IF dry_run THEN a
            ELSE IF path = NoPath THEN Raise(a, "missing_path")
            ELSE LET u == StoreUpdate(a, "triggers", path, body, FingerprintOf(existing))
                 IN IF u.err # "none" THEN u
                    ELSE IF HasKey(u.ret, "triggerId")
                    THEN [u EXCEPT !.map = SetKey(@, name_lower, u.ret["triggerId"])]
                    ELSE IF HasKey(existing, "triggerId")
                    THEN [u EXCEPT !.map = SetKey(@, name_lower, existing["triggerId"])]
                    ELSE u

RECURSIVE sync_triggers_loop(_, _, _)
sync_triggers_loop(acc, items, current_idx) ==
    IF items = <<>> \/ acc.err # "none" THEN acc
    ELSE sync_triggers_loop(
             sync_trigger(acc, Head(items).k, Head(items).e, current_idx),
             Tail(items), current_idx)

\* one iteration of _sync_tags' loop
sync_tag(acc, name_lower, raw_desired_tag, current_idx) ==
    LET resolved == tag_with_resolved_triggers(raw_desired_tag, acc.map) IN
    IF resolved.err # "none" THEN RaiseWith(acc, resolved.err, resolved.args)
    ELSE
    LET desired_tag == resolved.tag
        display_name == desired_tag["name"]
    IN
    IF ~IndexHas(current_idx, name_lower)
    THEN IF ~HasKey(desired_tag, "firingTriggerId")
         THEN Raise(acc, "missing_firing_trigger")
         ELSE LET a == Record(acc, "tags", "created", display_name) IN
              IF ~dry_run
              THEN StoreCreate(a, "tags", strip_dynamic_fields_deep(desired_tag))
              ELSE a
    ELSE LET existing == IndexGet(current_idx, name_lower) IN
    IF ~update_existing THEN Record(acc, "tags", "skipped", display_name)
    ELSE IF normalize_for_diff(desired_tag) = normalize_for_diff(existing)
    THEN Record(acc, "tags", "skipped", display_name)
    ELSE LET a == Record(acc, "tags", "updated", display_name)
             merged == merge_desired_into_current(existing, desired_tag)
             body == strip_dynamic_fields_deep(merged)
             path == entity_path_from_workspace("tags", existing)
         IN IF dry_run THEN a
            ELSE IF path = NoPath THEN Raise(a, "missing_path")
            ELSE StoreUpdate(a, "tags", path, body, FingerprintOf(existing))

RECURSIVE sync_tags_loop(_, _, _)
sync_tags_loop(acc, items, current_idx) ==
    IF items = <<>> \/ acc.err # "none" THEN acc
    ELSE sync_tags_loop(
             sync_tag(acc, Head(items).k, Head(items).e, current_idx),
             Tail(items), current_idx)

----------------------------------------------------------------------------
(* WorkspaceWorkflowManager._apply_deletes *)

\* a faulty variant: the delete loop without its dry-run test
delete_missing_entity_in_dry_run(acc, coll, name_lower, existing, desired_names) ==
    IF name_lower \in desired_names THEN acc
    ELSE LET a == Record(acc, coll, "deleted", existing["name"])
             path == entity_path_from_workspace(coll, existing)
         IN IF path # NoPath THEN StoreDelete(a, coll, path) ELSE a

\* one iteration of a delete loop: a current entity whose name is desired is
\* kept; another is recorded and, in a live run with a path, deleted
delete_missing_entity(acc, coll, name_lower, existing, desired_names) ==
    IF name_lower \in desired_names THEN acc
    ELSE LET a == Record(acc, coll, "deleted", existing["name"])
             path == entity_path_from_workspace(coll, existing)
         IN IF dry_run THEN a
            ELSE IF path # NoPath THEN StoreDelete(a, coll, path)
            ELSE a

RECURSIVE delete_loop(_, _, _, _)
delete_loop(acc, coll, items, desired_names) ==
    IF items = <<>> \/ acc.err # "none" THEN acc
    ELSE delete_loop(
             delete_missing_entity(acc, coll, Head(items).k, Head(items).e, desired_names),
             coll, Tail(items), desired_names)

\* a faulty variant: the delete loops in dependency order
DeleteOrderForward == <<"variables", "triggers", "tags">>

\* the order of the three delete loops: tags -> triggers -> variables
DeleteOrder == <<"tags", "triggers", "variables">>

CurrentIndexOf(coll) ==
    CASE coll = "variables" -> var_by_name
      [] coll = "triggers" -> trig_by_name
      [] coll = "tags" -> tag_by_name

RECURSIVE delete_types(_, _)
delete_types(acc, order) ==
    IF order = <<>> \/ acc.err # "none" THEN acc
    ELSE delete_types(
             delete_loop(acc, Head(order), CurrentIndexOf(Head(order)),
                         IndexKeys(index_by_name(desired[Head(order)]))),
             Tail(order))

\* a faulty variant: the delete loops run whatever delete_missing says
apply_deletes_unasked(acc) == delete_types(acc, DeleteOrder)

apply_deletes(acc) == IF ~delete_missing THEN acc ELSE delete_types(acc, DeleteOrder)

----------------------------------------------------------------------------
(* ContainerManager.sync_workspace with TagManager / TriggerManager upserts *)

\* sorted(xs): a stable sort of strings, by insertion
RECURSIVE InsertStr(_, _)
InsertStr(sorted, x) ==
    IF sorted = <<>> THEN <<x>>
    ELSE IF StrLess(x, sorted[Len(sorted)])
         THEN Append(InsertStr(SubSeq(sorted, 1, Len(sorted) - 1), x),
                     sorted[Len(sorted)])
         ELSE Append(sorted, x)

RECURSIVE SortStr(_)
SortStr(xs) ==
    IF xs = <<>> THEN <<>>
    ELSE InsertStr(SortStr(SubSeq(xs, 1, Len(xs) - 1)), xs[Len(xs)])

\* json.dumps of a string of plain letters and spaces: the string in quotes
JsonKey(x) == <<34>> \o x \o <<34>>

\* sorted(names, key=_stable_sort_key) for a list of strings
RECURSIVE InsertJson(_, _)
InsertJson(sorted, x) ==
    IF sorted = <<>> THEN <<x>>
    ELSE IF StrLess(JsonKey(x), JsonKey(sorted[Len(sorted)]))
         THEN Append(InsertJson(SubSeq(sorted, 1, Len(sorted) - 1), x),
                     sorted[Len(sorted)])
         ELSE Append(sorted, x)

RECURSIVE SortJson(_)
SortJson(xs) ==
    IF xs = <<>> THEN <<>>
    ELSE InsertJson(SortJson(SubSeq(xs, 1, Len(xs) - 1)), xs[Len(xs)])

\* sorted(ids, key=_stable_sort_key) for a list of one-digit ids
RECURSIVE InsertId(_, _)
InsertId(sorted, x) ==
    IF sorted = <<>> THEN <<x>>
    ELSE IF x < sorted[Len(sorted)]
         THEN Append(InsertId(SubSeq(sorted, 1, Len(sorted) - 1), x),
                     sorted[Len(sorted)])
         ELSE Append(sorted, x)

RECURSIVE SortIds(_)
SortIds(xs) ==
    IF xs = <<>> THEN <<>>
    ELSE InsertId(SortIds(SubSeq(xs, 1, Len(xs) - 1)), xs[Len(xs)])

\* the keys whose values are lists, of trigger ids and of trigger names
IdListKeys == {"firingTriggerId", "blockingTriggerId"}
NameListKeys == {"firingTriggerNames", "blockingTriggerNames"}

\* helpers.DEFAULT_READ_ONLY_FIELDS
DEFAULT_READ_ONLY_FIELDS ==
    {"accountId", "containerId", "workspaceId", "tagId", "triggerId",
     "variableId", "path", "fingerprint", "tagManagerUrl"}

\* READ_ONLY_TAG_FIELDS, READ_ONLY_TRIGGER_FIELDS, READ_ONLY_VARIABLE_FIELDS
READ_ONLY_FIELDS(coll) ==
    {"accountId", "containerId", "workspaceId", IdKey(coll), "path",
     "fingerprint", "tagManagerUrl"}

\* helpers._canonicalize on an entity: read-only keys dropped, every list
\* sorted by the JSON text of its items
canonicalize(e, read_only_fields) ==
    [k \in DOMAIN e \ read_only_fields |->
        IF k \in IdListKeys THEN SortIds(e[k])
        ELSE IF k \in NameListKeys THEN SortJson(e[k])
        ELSE e[k]]

\* prepare_payload / _prepare_payload: the top-level read-only keys popped
prepare_payload(e, read_only_fields) == [k \in DOMAIN e \ read_only_fields |-> e[k]]

\* str(entity.get("name", "")).strip()
StrippedName(e) == IF HasKey(e, "name") THEN Strip(e["name"]) ELSE <<>>

\* _find_tag_by_name / _find_trigger_by_name / _find_variable_by_name: the
\* position of the first entity with that trimmed name, 0 when there is none
find_by_name(entities, name) ==
    LET hits == {i \in 1..Len(entities) : StrippedName(entities[i]) = name}
    IN IF hits = {} THEN 0 ELSE CHOOSE i \in hits : \A j \in hits : i =< j

\* _new_entity_summary, per entity type
new_sync_summary ==
    [c \in Collections |->
        [created |-> <<>>, updated |-> <<>>, deleted |-> <<>>, noop |-> <<>>]]

\* _record_summary_action
record_summary_action(acc, coll, action, payload) ==
    LET name == StrippedName(payload) IN
    IF name = <<>> THEN acc
    ELSE LET b == acc.summary[coll]
             added == [b EXCEPT ![action] = Append(@, name)]
         IN [acc EXCEPT !.summary[coll] =
                [created |-> SortStr(added.created), updated |-> SortStr(added.updated),
                 deleted |-> added.deleted, noop |-> SortStr(added.noop)]]

\* a faulty variant: an existing entity updated without the equality test
upsert_entity_without_noop(acc, coll, entity) ==
    LET name == StrippedName(entity) IN
    IF name = <<>> THEN Raise(acc, "missing_name")
    ELSE
    LET desired_payload == prepare_payload(entity, READ_ONLY_FIELDS(coll))
        current == StoreList(acc.store, coll)
        found == find_by_name(current, name)
    IN
    IF found = 0
    THEN IF dry_run THEN record_summary_action(acc, coll, "created", desired_payload)
         ELSE LET c == StoreCreate(acc, coll, desired_payload)
              IN record_summary_action(c, coll, "created", c.ret)
    ELSE
    LET existing == current[found] IN
    IF dry_run THEN record_summary_action(acc, coll, "updated", desired_payload)
    ELSE IF ~HasKey(existing, "path") THEN Raise(acc, "missing_path")
    ELSE LET update_body ==
                 IF HasKey(existing, IdKey(coll))
                 THEN SetKey(desired_payload, IdKey(coll), existing[IdKey(coll)])
                 ELSE desired_payload
             u == StoreUpdate(acc, coll, existing["path"], update_body, "None")
         IN record_summary_action(u, coll, "updated", u.ret)

\* upsert_tag / upsert_trigger / upsert_variable, then the summary record
\* _sync_desired_entities makes of the result
upsert_entity(acc, coll, entity) ==
    LET name == StrippedName(entity) IN
    IF name = <<>> THEN Raise(acc, "missing_name")
    ELSE
    LET desired_payload == prepare_payload(entity, READ_ONLY_FIELDS(coll))
        current == StoreList(acc.store, coll)
        found == find_by_name(current, name)
    IN
    IF found = 0
    THEN IF dry_run THEN record_summary_action(acc, coll, "created", desired_payload)
         ELSE LET c == StoreCreate(acc, coll, desired_payload)
              IN record_summary_action(c, coll, "created", c.ret)
    ELSE
    LET existing == current[found] IN
    IF canonicalize(existing, READ_ONLY_FIELDS(coll))
         = canonicalize(desired_payload, READ_ONLY_FIELDS(coll))
    THEN record_summary_action(acc, coll, "noop", existing)
    ELSE IF dry_run THEN record_summary_action(acc, coll, "updated", desired_payload)
    ELSE IF ~HasKey(existing, "path") THEN Raise(acc, "missing_path")
    ELSE LET update_body ==
                 IF HasKey(existing, IdKey(coll))
                 THEN SetKey(desired_payload, IdKey(coll), existing[IdKey(coll)])
                 ELSE desired_payload
             u == StoreUpdate(acc, coll, existing["path"], update_body, "None")
         IN record_summary_action(u, coll, "updated", u.ret)

\* _sync_desired_entities
RECURSIVE sync_desired_entities(_, _, _)
sync_desired_entities(acc, coll, entities) ==
    IF entities = <<>> \/ acc.err # "none" THEN acc
    ELSE sync_desired_entities(upsert_entity(acc, coll, Head(entities)), coll,
                               Tail(entities))

\* delete_tag_by_name / delete_trigger_by_name / delete_variable_by_name;
\* acc.ret is the boolean returned
delete_by_name(acc, coll, name) ==
    LET current == StoreList(acc.store, coll)
        found == find_by_name(current, name)
    IN IF found = 0 THEN [acc EXCEPT !.ret = FALSE]
       ELSE IF dry_run THEN [acc EXCEPT !.ret = TRUE]
       ELSE IF ~HasKey(current[found], "path") THEN Raise(acc, "missing_path")
       ELSE [StoreDelete(acc, coll, current[found]["path"]) EXCEPT !.ret = TRUE]

\* _delete_missing_for_type
RECURSIVE delete_missing_for_type(_, _, _, _)
delete_missing_for_type(acc, coll, current_entities, desired_names) ==
    IF current_entities = <<>> \/ acc.err # "none" THEN acc
    ELSE LET name == StrippedName(Head(current_entities))
             d == IF name # <<>> /\ name \notin desired_names
                  THEN delete_by_name(acc, coll, name)
                  ELSE [acc EXCEPT !.ret = FALSE]
             a == IF d.err = "none" /\ d.ret
                  THEN [d EXCEPT !.summary[coll].deleted = Append(@, name)]
                  ELSE d
         IN delete_missing_for_type(a, coll, Tail(current_entities), desired_names)

\* the order in which _delete_missing_entities treats the entity types
CMDeleteOrder == <<"tags", "triggers", "variables">>

RECURSIVE cm_delete_types(_, _, _)
cm_delete_types(acc, order, current) ==
    IF order = <<>> THEN acc
    ELSE cm_delete_types(
             delete_missing_for_type(
                 acc, Head(order), current[Head(order)],
                 {StrippedName(desired[Head(order)][i]) :
                     i \in 1..Len(desired[Head(order)])}),
             Tail(order), current)

\* _delete_missing_entities: the snapshot is fetched once, then the three
\* types are treated, then the deleted lists are sorted
delete_missing_entities(acc) ==
    LET current == [c \in Collections |-> StoreList(acc.store, c)]
        a == cm_delete_types(acc, CMDeleteOrder, current)
    IN IF a.err # "none" THEN a
       ELSE [a EXCEPT !.summary =
                [c \in Collections |->
                    [a.summary[c] EXCEPT !.deleted = SortStr(@)]]]

CMCommit(acc, next) ==
    /\ store' = acc.store
    /\ next_id' = acc.next_id
    /\ log' = acc.log
    /\ summary' = acc.summary
    /\ err' = acc.err
    /\ err_args' = acc.args
    /\ pc' = IF acc.err # "none" THEN "raised" ELSE next
    /\ UNCHANGED <<publish_vars, fail_at, heap, mgr, desired, dry_run, delete_missing, update_existing,
                   var_by_name, trig_by_name, tag_by_name, trigger_name_to_id,
                   run, diff_vars>>

CMSyncVariables ==
    /\ mgr = "container" /\ pc = "variables"
    /\ CMCommit(sync_desired_entities(CallState, "variables", desired.variables),
                "triggers")

CMSyncTriggers ==
    /\ mgr = "container" /\ pc = "triggers"
    /\ CMCommit(sync_desired_entities(CallState, "triggers", desired.triggers),
                "tags")

CMSyncTags ==
    /\ mgr = "container" /\ pc = "tags"
    /\ CMCommit(sync_desired_entities(CallState, "tags", desired.tags), "deletes")

CMDeleteMissing ==
    /\ mgr = "container" /\ pc = "deletes"
    /\ CMCommit(IF delete_missing THEN delete_missing_entities(CallState)
                ELSE CallState, "done")

----------------------------------------------------------------------------
(* Inputs: the desired snapshots and the workspace states a call may meet *)

\* most entities a desired snapshot holds, over its three lists
MaxDesired == 3

\* "A", "B ", "T", "t" (the same name as "T" once lower-cased), "G", "g", " "
NameA == <<65>>
NameB == <<66, 32>>
NameT == <<84>>
NameT2 == <<116>>
NameG == <<71>>
NameG2 == <<103>>
NameBlank == <<32>>

DesiredVariablePool ==
    {[name |-> NameA, type |-> "v"],
     [name |-> NameB, type |-> "v"]}

DesiredTriggerPool ==
    {[name |-> NameT, type |-> "PAGEVIEW"],
     [name |-> NameT2, type |-> "CLICK"]}

DesiredTagPool ==
    {[name |-> NameG, type |-> "html", firingTriggerNames |-> <<NameT>>],
     [name |-> NameG, type |-> "html", firingTriggerId |-> <<1>>],
     [name |-> NameG2, type |-> "html"],
     [name |-> NameG2, type |-> "html", firingTriggerNames |-> <<NameT>>,
      firingTriggerId |-> <<1>>],
     [name |-> NameG2, type |-> "html", firingTriggerNames |-> <<NameBlank>>]}

SeqsUpTo(S, n) == UNION {[1..k -> S] : k \in 0..n}

\* the lists of at most n entities of a pool, none listed twice (two entities
\* of a list may still share a name)
ListsUpTo(S, n) ==
    {l \in SeqsUpTo(S, n) : \A i, j \in 1..Len(l) : i # j => l[i] # l[j]}

DesiredSnapshots ==
    {sn \in [variables : ListsUpTo(DesiredVariablePool, MaxDesired),
             triggers : ListsUpTo(DesiredTriggerPool, MaxDesired),
             tags : ListsUpTo(DesiredTagPool, MaxDesired)] :
        Len(sn.variables) + Len(sn.triggers) + Len(sn.tags) =< MaxDesired}

\* what each collection of the workspace may hold before the first call: an
\* entity the store created earlier (with its id, path and fingerprint)
StoredEntity(coll, body) ==
    SetKey(SetKey(SetKey(body, IdKey(coll), 1), "path", PathOf(coll, 1)),
           "fingerprint", "fp")

StoredVariableA == StoredEntity("variables", [name |-> NameA, type |-> "v", notes |-> "old"])

InitialCollection(coll) ==
    CASE coll = "variables" -> {<<>>, <<StoredVariableA>>}
      [] coll = "triggers" ->
            {<<>>, <<StoredEntity(coll, [name |-> NameT, type |-> "PAGEVIEW"])>>}
      [] coll = "tags" ->
            {<<>>, <<StoredEntity(coll, [name |-> NameG, type |-> "html",
                                         firingTriggerId |-> <<1>>])>>}

\* a variable the list call returned without its path, and one it returned
\* with neither path nor id
PathlessVariables ==
    {<<WithoutKeys(StoredVariableA, {"path"})>>,
     <<WithoutKeys(StoredVariableA, {"path", "variableId"})>>}

InitialStores ==
    {[c \in Collections |-> index_by_name(l[c])] :
        l \in [variables : InitialCollection("variables"),
               triggers : InitialCollection("triggers"),
               tags : InitialCollection("tags")]
              \cup [variables : PathlessVariables,
                    triggers : {<<>>},
                    tags : {<<>>}]}

----------------------------------------------------------------------------
(* WorkspaceWorkflowManager.sync_workspace as a state machine: one step per *)
(* phase of the call                                                        *)

\* a faulty variant: triggers synced before variables
SyncOrderTriggersFirst == <<"triggers", "variables", "tags", "deletes">>

\* the order of the phases of sync_workspace
SyncOrder == <<"variables", "triggers", "tags", "deletes">>

PhaseAfter(p) ==
    LET i == CHOOSE j \in 1..Len(SyncOrder) : SyncOrder[j] = p
    IN IF i < Len(SyncOrder) THEN SyncOrder[i + 1] ELSE "done"

EmptyIndex == <<>>

Init ==
    /\ mgr \in {"workflow", "container"}
    /\ pc = IF mgr = "workflow" THEN SyncOrder[1] ELSE "variables"
    /\ desired \in DesiredSnapshots
    /\ dry_run \in BOOLEAN
    /\ delete_missing \in BOOLEAN
    /\ update_existing \in (IF mgr = "workflow" THEN BOOLEAN ELSE {TRUE})
    /\ store \in InitialStores
    /\ next_id = [c \in Collections |-> Len(store[c]) + 1]
    /\ log = <<>>
    /\ summary = IF mgr = "workflow" THEN init_summary ELSE new_sync_summary
    /\ var_by_name = EmptyIndex
    /\ trig_by_name = EmptyIndex
    /\ tag_by_name = EmptyIndex
    /\ trigger_name_to_id = <<>>
    /\ err = "none"
    /\ err_args = <<>>
    /\ run = "first"
    /\ current_snapshot = <<>>
    /\ diff_out = <<>>
    /\ container = <<>>
    /\ frame = <<>>
    /\ fail_at = 0
    /\ heap = <<>>

\* what a phase leaves behind: the store, the calls, the summary, the map,
\* and the position: the next phase, or "raised" when the phase raised
\* a faulty variant: a phase that raised leaves the store as it found it
CommitRollingBack(acc, phase) ==
    /\ store' = IF acc.err # "none" THEN store ELSE acc.store
    /\ next_id' = acc.next_id
    /\ log' = acc.log
    /\ trigger_name_to_id' = acc.map
    /\ err' = acc.err
    /\ err_args' = acc.args
    /\ pc' = IF acc.err # "none" THEN "raised" ELSE PhaseAfter(phase)

Commit(acc, phase) ==
    /\ store' = acc.store
    /\ next_id' = acc.next_id
    /\ log' = acc.log
    /\ trigger_name_to_id' = acc.map
    /\ err' = acc.err
    /\ err_args' = acc.args
    /\ pc' = IF acc.err # "none" THEN "raised" ELSE PhaseAfter(phase)

SyncVariables ==
    /\ mgr = "workflow" /\ pc = "variables"
    /\ LET current_idx == index_by_name(StoreList(store, "variables"))
           acc == sync_variables_loop(CallState, index_by_name(desired.variables),
                                      current_idx)
       IN /\ Commit(acc, "variables")
          /\ summary' = acc.summary
          /\ var_by_name' = current_idx
    /\ UNCHANGED <<publish_vars, fail_at, heap, mgr, desired, dry_run, delete_missing, update_existing,
                   trig_by_name, tag_by_name, run, diff_vars>>

SyncTriggers ==
    /\ mgr = "workflow" /\ pc = "triggers"
    /\ LET current == StoreList(store, "triggers")
           current_idx == index_by_name(current)
           start == [CallState EXCEPT !.map = name_to_id_from(<<>>, current)]
           acc == sync_triggers_loop(start, index_by_name(desired.triggers),
                                     current_idx)
       IN /\ Commit(acc, "triggers")
          /\ summary' = acc.summary
          /\ trig_by_name' = current_idx
    /\ UNCHANGED <<publish_vars, fail_at, heap, mgr, desired, dry_run, delete_missing, update_existing,
                   var_by_name, tag_by_name, run, diff_vars>>

SyncTags ==
    /\ mgr = "workflow" /\ pc = "tags"
    /\ LET current_idx == index_by_name(StoreList(store, "tags"))
           acc == sync_tags_loop(CallState, index_by_name(desired.tags), current_idx)
       IN /\ Commit(acc, "tags")
          /\ summary' = acc.summary
          /\ tag_by_name' = current_idx
    /\ UNCHANGED <<publish_vars, fail_at, heap, mgr, desired, dry_run, delete_missing, update_existing,
                   var_by_name, trig_by_name, run, diff_vars>>

\* _apply_deletes, then _finalize_summary and the return
ApplyDeletes ==
    /\ mgr = "workflow" /\ pc = "deletes"
    /\ LET acc == apply_deletes(CallState)
       IN /\ Commit(acc, "deletes")
          /\ summary' = finalize_summary(acc.summary)
    /\ UNCHANGED <<publish_vars, fail_at, heap, mgr, desired, dry_run, delete_missing, update_existing,
                   var_by_name, trig_by_name, tag_by_name, run, diff_vars>>

\* the caller repeats a live call that returned, with the same desired
\* snapshot and flags, on the workspace as the first call left it
Resync ==
    /\ mgr = "workflow" /\ pc = "done" /\ run = "first" /\ ~dry_run
    /\ pc' = SyncOrder[1]
    /\ run' = "repeated"
    /\ log' = <<>>
    /\ summary' = init_summary
    /\ var_by_name' = EmptyIndex
    /\ trig_by_name' = EmptyIndex
    /\ tag_by_name' = EmptyIndex
    /\ trigger_name_to_id' = <<>>
    /\ UNCHANGED <<publish_vars, fail_at, heap, mgr, desired, dry_run, delete_missing, update_existing,
                   store, next_id, err, err_args, diff_vars>>

Next ==
    \/ SyncVariables
    \/ SyncTriggers
    \/ SyncTags
    \/ ApplyDeletes
    \/ Resync
    \/ CMSyncVariables
    \/ CMSyncTriggers
    \/ CMSyncTags
    \/ CMDeleteMissing

Spec == Init /\ [][Next]_vars

\* ---------------------------------------------------------------------
\* sync_workspace against a remote store that rejects one call
\* ---------------------------------------------------------------------

\* the latest call of a sync the store may be set to reject
MaxFailAt == 3

\* a live sync with both flags on; the store rejects its fail_at-th mutating
\* call, if the sync gets that far
FailureInit ==
    /\ mgr = "workflow"
    /\ pc = SyncOrder[1]
    /\ desired \in DesiredSnapshots
    /\ dry_run = FALSE
    /\ delete_missing = TRUE
    /\ update_existing = TRUE
    /\ store \in InitialStores
    /\ next_id = [c \in Collections |-> Len(store[c]) + 1]
    /\ log = <<>>
    /\ summary = init_summary
    /\ var_by_name = EmptyIndex
    /\ trig_by_name = EmptyIndex
    /\ tag_by_name = EmptyIndex
    /\ trigger_name_to_id = <<>>
    /\ err = "none"
    /\ err_args = <<>>
    /\ run = "first"
    /\ current_snapshot = <<>>
    /\ diff_out = <<>>
    /\ container = <<>>
    /\ frame = <<>>
    /\ fail_at \in 1..MaxFailAt
    /\ heap = <<>>

FailureNext ==
    \/ SyncVariables
    \/ SyncTriggers
    \/ SyncTags
    \/ ApplyDeletes

SpecFailure == FailureInit /\ [][FailureNext]_vars

\* ---------------------------------------------------------------------
\* The diffs
\* ---------------------------------------------------------------------

\* the display names of an index's entities, in the index's order
NamesOf(idx) == [i \in 1..Len(idx) |-> idx[i].e["name"]]

\* the keys of an index, in the index's order
KeysOf(idx) == [i \in 1..Len(idx) |-> idx[i].k]

\* a faulty variant: the entities compared as they are, dynamic fields included
diff_named_entities_comparing_raw(desired_l, current_l) ==
    LET desired_by_name == index_by_name(desired_l)
        current_by_name == index_by_name(current_l)
        create == SelectSeq(desired_by_name,
                            LAMBDA x : ~IndexHas(current_by_name, x.k))
        update == SelectSeq(desired_by_name,
                            LAMBDA x : /\ IndexHas(current_by_name, x.k)
                                       /\ x.e # IndexGet(current_by_name, x.k))
        delete == SelectSeq(current_by_name,
                            LAMBDA x : ~IndexHas(desired_by_name, x.k))
    IN [create |-> SortByLower(NamesOf(create)),
        update |-> SortByLower(NamesOf(update)),
        delete |-> SortByLower(NamesOf(delete))]

\* workflow_manager.diff_named_entities
diff_named_entities(desired_l, current_l) ==
    LET desired_by_name == index_by_name(desired_l)
        current_by_name == index_by_name(current_l)
        create == SelectSeq(desired_by_name,
                            LAMBDA x : ~IndexHas(current_by_name, x.k))
        update == SelectSeq(desired_by_name,
                            LAMBDA x : /\ IndexHas(current_by_name, x.k)
                                       /\ normalize_for_diff(x.e) #
                                            normalize_for_diff(IndexGet(current_by_name, x.k)))
        delete == SelectSeq(current_by_name,
                            LAMBDA x : ~IndexHas(desired_by_name, x.k))
    IN [create |-> SortByLower(NamesOf(create)),
        update |-> SortByLower(NamesOf(update)),
        delete |-> SortByLower(NamesOf(delete))]

\* workflow_manager.diff_workspace
diff_workspace(desired_snapshot, current) ==
    [c \in Collections |-> diff_named_entities(desired_snapshot[c], current[c])]

\* helpers._index_by_name: keyed by the stripped name, its case kept
RECURSIVE HelperIndexFrom(_, _)
HelperIndexFrom(out, entities) ==
    IF entities = <<>> THEN out
    ELSE LET entity == Head(entities)
             name == StrippedName(entity)
         IN HelperIndexFrom(IF name # <<>> THEN IndexPut(out, name, entity)
                                           ELSE out,
                            Tail(entities))

helpers_index_by_name(entities) == HelperIndexFrom(<<>>, entities)

\* helpers.diff_entities_by_name
diff_entities_by_name(desired_l, current_l, read_only_fields) ==
    LET desired_map == helpers_index_by_name(desired_l)
        current_map == helpers_index_by_name(current_l)
        desired_names == IndexKeys(desired_map)
        current_names == IndexKeys(current_map)
        common == SortStr(SelectSeq(KeysOf(desired_map),
                                    LAMBDA n : n \in current_names))
    IN [create |-> SortStr(SelectSeq(KeysOf(desired_map),
                                     LAMBDA n : n \notin current_names)),
        update |-> SelectSeq(common,
                     LAMBDA n : canonicalize(IndexGet(desired_map, n), read_only_fields)
                                # canonicalize(IndexGet(current_map, n), read_only_fields)),
        delete |-> SortStr(SelectSeq(KeysOf(current_map),
                                     LAMBDA n : n \notin desired_names))]

\* ContainerManager.diff_workspace
cm_diff_workspace(desired_state, current) ==
    [c \in Collections |->
        diff_entities_by_name(desired_state[c], current[c],
                              IF c = "variables" THEN READ_ONLY_FIELDS("variables")
                              ELSE DEFAULT_READ_ONLY_FIELDS)]

\* --- the inputs of a diff ---

\* the longest list of entities handed to a diff
MaxDiffLen == 2

NameLowerA == <<32, 97>>
NameLowerA2 == <<97, 32>>
NameC == <<67>>

DiffDesiredPool ==
    {[name |-> NameA, type |-> "v"],
     [name |-> NameLowerA2, type |-> "w"],
     [name |-> NameB, type |-> "v"],
     [name |-> NameBlank, type |-> "v"]}

DiffCurrentPool ==
    {[name |-> NameA, type |-> "v", path |-> <<"variables", 1>>, fingerprint |-> "fp"],
     [name |-> NameA, type |-> "v", tagManagerUrl |-> "url"],
     [name |-> NameLowerA, type |-> "v"],
     [name |-> NameC, type |-> "w"],
     [type |-> "v"]}

\* a snapshot with one list of entities, under the type coll
SnapshotOf(coll, entities) ==
    [c \in Collections |-> IF c = coll THEN entities ELSE <<>>]

DiffInit ==
    /\ mgr \in {"workflow", "container"}
    /\ pc = "diff"
    /\ \E coll \in Collections :
          /\ desired \in {SnapshotOf(coll, l) : l \in SeqsUpTo(DiffDesiredPool, MaxDiffLen)}
          /\ current_snapshot \in
                {SnapshotOf(coll, l) : l \in SeqsUpTo(DiffCurrentPool, MaxDiffLen)}
    /\ dry_run = TRUE
    /\ delete_missing = FALSE
    /\ update_existing = TRUE
    /\ store = [c \in Collections |-> <<>>]
    /\ next_id = [c \in Collections |-> 1]
    /\ log = <<>>
    /\ summary = <<>>
    /\ var_by_name = EmptyIndex
    /\ trig_by_name = EmptyIndex
    /\ tag_by_name = EmptyIndex
    /\ trigger_name_to_id = <<>>
    /\ err = "none"
    /\ err_args = <<>>
    /\ run = "first"
    /\ diff_out = <<>>
    /\ container = <<>>
    /\ frame = <<>>
    /\ fail_at = 0
    /\ heap = <<>>

DiffWorkspace ==
    /\ mgr = "workflow" /\ pc = "diff"
    /\ diff_out' = diff_workspace(desired, current_snapshot)
    /\ pc' = "diffed"
    /\ UNCHANGED <<publish_vars, fail_at, heap, mgr, desired, dry_run, delete_missing, update_existing, store,
                   next_id, log, summary, var_by_name, trig_by_name, tag_by_name,
                   trigger_name_to_id, err, err_args, run, current_snapshot>>

CMDiffWorkspace ==
    /\ mgr = "container" /\ pc = "diff"
    /\ diff_out' = cm_diff_workspace(desired, current_snapshot)
    /\ pc' = "diffed"
    /\ UNCHANGED <<publish_vars, fail_at, heap, mgr, desired, dry_run, delete_missing, update_existing, store,
                   next_id, log, summary, var_by_name, trig_by_name, tag_by_name,
                   trigger_name_to_id, err, err_args, run, current_snapshot>>

DiffNext == DiffWorkspace \/ CMDiffWorkspace

SpecDiff == DiffInit /\ [][DiffNext]_vars

----------------------------------------------------------------------------
(* export_workspace_snapshot and diff_workspace_against_snapshot, next to a *)
(* dry-run sync_workspace of the same desired snapshot on the same          *)
(* workspace                                                                *)

\* the key _sort_by_name sorts on: _lower(str(x.get("name") or ""))
SortName(entity) == IF HasKey(entity, "name") THEN LowerName(entity["name"]) ELSE <<>>

\* a faulty variant: entities of one key come out in reverse order
RECURSIVE insert_by_name_before_equals(_, _)
insert_by_name_before_equals(sorted, x) ==
    IF sorted = <<>> THEN <<x>>
    ELSE IF ~StrLess(SortName(sorted[Len(sorted)]), SortName(x))
         THEN Append(insert_by_name_before_equals(SubSeq(sorted, 1, Len(sorted) - 1), x),
                     sorted[Len(sorted)])
         ELSE Append(sorted, x)

\* sorted(items, key=...): a stable sort, by insertion
RECURSIVE insert_by_name(_, _)
insert_by_name(sorted, x) ==
    IF sorted = <<>> THEN <<x>>
    ELSE IF StrLess(SortName(x), SortName(sorted[Len(sorted)]))
         THEN Append(insert_by_name(SubSeq(sorted, 1, Len(sorted) - 1), x),
                     sorted[Len(sorted)])
         ELSE Append(sorted, x)

\* _sort_by_name
RECURSIVE sort_by_name(_)
sort_by_name(items) ==
    IF items = <<>> THEN <<>>
    ELSE insert_by_name(sort_by_name(SubSeq(items, 1, Len(items) - 1)), items[Len(items)])

\* export_workspace_snapshot: per type, the listed entities sorted by name,
\* each normalized
export_workspace_snapshot(st) ==
    [c \in Collections |->
        LET sorted == sort_by_name(StoreList(st, c))
        IN [i \in 1..Len(sorted) |-> normalize_for_diff(sorted[i])]]

\* diff_workspace_against_snapshot
diff_workspace_against_snapshot(desired_snapshot, st) ==
    diff_workspace(desired_snapshot, export_workspace_snapshot(st))

\* a workspace whose collection coll lists these entities
WorkspaceOf(coll, entities) ==
    [c \in Collections |->
        IF c = coll
        THEN [i \in 1..Len(entities) |-> [k |-> SortName(entities[i]), e |-> entities[i]]]
        ELSE <<>>]

\* a dry-run sync_workspace with update_existing and delete_missing set, on
\* a workspace that may list entities of one name twice, or without a name
DryInit ==
    /\ mgr = "workflow"
    /\ pc = SyncOrder[1]
    /\ \E coll \in Collections :
          /\ desired \in {SnapshotOf(coll, l) : l \in SeqsUpTo(DiffDesiredPool, MaxDiffLen)}
          /\ store \in {WorkspaceOf(coll, l) : l \in SeqsUpTo(DiffCurrentPool, MaxDiffLen)}
    /\ dry_run = TRUE
    /\ delete_missing = TRUE
    /\ update_existing = TRUE
    /\ next_id = [c \in Collections |-> Len(store[c]) + 1]
    /\ log = <<>>
    /\ summary = init_summary
    /\ var_by_name = EmptyIndex
    /\ trig_by_name = EmptyIndex
    /\ tag_by_name = EmptyIndex
    /\ trigger_name_to_id = <<>>
    /\ err = "none"
    /\ err_args = <<>>
    /\ run = "first"
    /\ current_snapshot = <<>>
    /\ diff_out = <<>>
    /\ container = <<>>
    /\ frame = <<>>
    /\ fail_at = 0
    /\ heap = <<>>

\* diff_workspace_against_snapshot with the desired snapshot of the sync
\* that returned, on the same workspace
DiffAgainstSnapshot ==
    /\ mgr = "workflow" /\ pc = "done" /\ dry_run
    /\ diff_out' = diff_workspace_against_snapshot(desired, store)
    /\ pc' = "compared"
    /\ UNCHANGED <<publish_vars, fail_at, heap, mgr, desired, dry_run, delete_missing,
                   update_existing, store, next_id, log, summary, var_by_name,
                   trig_by_name, tag_by_name, trigger_name_to_id, err, err_args,
                   run, current_snapshot>>

\* the workspace exported, and the export diffed against the workspace: by
\* diff_workspace_against_snapshot, and by diff_workspace on the lists as
\* the workspace gives them
DiffOwnExport ==
    /\ mgr = "workflow" /\ pc = SyncOrder[1] /\ log = <<>>
    /\ LET exported == export_workspace_snapshot(store)
       IN diff_out' =
             [against_snapshot |-> diff_workspace_against_snapshot(exported, store),
              against_listed |->
                  diff_workspace(exported, [c \in Collections |-> StoreList(store, c)])]
    /\ pc' = "exported"
    /\ UNCHANGED <<publish_vars, fail_at, heap, mgr, desired, dry_run, delete_missing,
                   update_existing, store, next_id, log, summary, var_by_name,
                   trig_by_name, tag_by_name, trigger_name_to_id, err, err_args,
                   run, current_snapshot>>

DryNext ==
    \/ SyncVariables
    \/ SyncTriggers
    \/ SyncTags
    \/ ApplyDeletes
    \/ DiffAgainstSnapshot
    \/ DiffOwnExport

SpecDry == DryInit /\ [][DryNext]_vars

\* ---------------------------------------------------------------------
\* The resolution of a tag's trigger names, on its own
\* ---------------------------------------------------------------------

\* the longest list of trigger names a tag carries
MaxNames == 2

\* " u", "x"
NameU == <<32, 117>>
NameX == <<120>>

ReferencePool == {NameT, NameU, NameX, NameBlank}

\* the ways a tag gives its firing triggers, and its blocking triggers
FiringForms ==
    {<<>>, [firingTriggerId |-> <<1>>]}
    \cup {[firingTriggerNames |-> l] : l \in SeqsUpTo(ReferencePool, MaxNames)}
    \cup {[firingTriggerNames |-> <<NameT>>, firingTriggerId |-> <<1>>]}

BlockingForms ==
    {<<>>, [blockingTriggerId |-> <<2>>], [blockingTriggerNames |-> <<NameU>>],
     [blockingTriggerNames |-> <<NameX>>],
     [blockingTriggerNames |-> <<NameU>>, blockingTriggerId |-> <<2>>]}

\* a record with the fields of two records of disjoint keys
Fields(a, b) ==
    [k \in DOMAIN a \cup DOMAIN b |-> IF k \in DOMAIN a THEN a[k] ELSE b[k]]

ResolvableTags ==
    {Fields([name |-> NameG, type |-> "html"], Fields(f, b)) :
        f \in FiringForms, b \in BlockingForms}

\* the trigger name-to-id maps: keys trimmed and lower-cased
TriggerMaps == {<<>>, [k \in {<<116>>} |-> 1],
                [k \in {<<116>>, <<117>>} |-> IF k = <<116>> THEN 1 ELSE 2]}

ResolveInit ==
    /\ mgr = "workflow"
    /\ pc = "resolve"
    /\ \E tag \in ResolvableTags : desired = SnapshotOf("tags", <<tag>>)
    /\ trigger_name_to_id \in TriggerMaps
    /\ current_snapshot = <<>>
    /\ dry_run = TRUE
    /\ delete_missing = FALSE
    /\ update_existing = TRUE
    /\ store = [c \in Collections |-> <<>>]
    /\ next_id = [c \in Collections |-> 1]
    /\ log = <<>>
    /\ summary = <<>>
    /\ var_by_name = EmptyIndex
    /\ trig_by_name = EmptyIndex
    /\ tag_by_name = EmptyIndex
    /\ err = "none"
    /\ err_args = <<>>
    /\ run = "first"
    /\ diff_out = <<>>
    /\ container = <<>>
    /\ frame = <<>>
    /\ fail_at = 0
    /\ heap = <<>>

\* a call of _tag_with_resolved_triggers; diff_out holds what it returns,
\* err and err_args what it raises
ResolveTagReferences ==
    /\ pc = "resolve"
    /\ LET r == tag_with_resolved_triggers(desired.tags[1], trigger_name_to_id)
       IN /\ diff_out' = IF r.err = "none" THEN r.tag ELSE <<>>
          /\ err' = r.err
          /\ err_args' = r.args
    /\ pc' = "resolved"
    /\ UNCHANGED <<publish_vars, fail_at, heap, mgr, desired, dry_run, delete_missing, update_existing, store,
                   next_id, log, summary, var_by_name, trig_by_name, tag_by_name,
                   trigger_name_to_id, run, current_snapshot>>

ResolveNext == ResolveTagReferences

SpecResolve == ResolveInit /\ [][ResolveNext]_vars

----------------------------------------------------------------------------
(* The update body: _merge_desired_into_current and                         *)
(* strip_dynamic_fields_deep on nested values.  A value carries its Python  *)
(* type: None, a scalar, a list of values or a dict of values by key.       *)

JNull == [kind |-> "null", s |-> "", items |-> <<>>, map |-> <<>>]

JScalar(x) == [kind |-> "scalar", s |-> x, items |-> <<>>, map |-> <<>>]

JList(l) == [kind |-> "list", s |-> "", items |-> l, map |-> <<>>]

JMap(f) == [kind |-> "map", s |-> "", items |-> <<>>, map |-> f]

\* _merge_desired_into_current
RECURSIVE merge_value(_, _)
merge_value(current_v, desired_v) ==
    IF desired_v.kind = "list" THEN desired_v
    ELSE IF current_v.kind # "map" \/ desired_v.kind # "map" THEN desired_v
    ELSE JMap([k \in DOMAIN current_v.map \cup DOMAIN desired_v.map |->
                 IF k \notin DOMAIN desired_v.map THEN current_v.map[k]
                 ELSE IF desired_v.map[k].kind = "null" THEN JNull
                 ELSE merge_value(
                          \* merged.get(k)
                          IF k \in DOMAIN current_v.map THEN current_v.map[k] ELSE JNull,
                          desired_v.map[k])])

\* strip_dynamic_fields_deep
RECURSIVE strip_value(_)
strip_value(value) ==
    IF value.kind = "list"
    THEN JList([i \in 1..Len(value.items) |-> strip_value(value.items[i])])
    ELSE IF value.kind # "map" THEN value
    ELSE JMap([k \in {x \in DOMAIN value.map :
                        x \notin DYNAMIC_FIELDS /\ ~StartsWithDunder(x)} |->
                 strip_value(value.map[k])])

\* the values of an entity's fields: None, scalars, lists, and mappings one
\* and two levels deep, some with keys the store manages
MergeLeaves ==
    {JNull, JScalar("x"), JScalar("y"), JList(<<>>), JList(<<JScalar("x")>>),
     JList(<<JScalar("y"), JScalar("x")>>)}

InnerValues ==
    {JNull, JScalar("x"), JList(<<JScalar("y")>>), JMap([k |-> JScalar("y")])}

InnerMaps ==
    {JMap(f) : f \in UNION {[ks -> InnerValues] : ks \in SUBSET {"k", "tagId"}}}

FieldValues ==
    MergeLeaves \cup InnerMaps
        \cup {JList(<<JMap([k |-> JScalar("x"), fingerprint |-> JScalar("f")])>>)}

\* an entity with or without the field "parameter", the store's path and the
\* store's display URL
MergeEntities ==
    {JMap(Fields(f, g)) :
        f \in {<<>>} \cup {[parameter |-> v] : v \in FieldValues},
        g \in {<<>>, [path |-> JScalar("p"), tagManagerUrl |-> JScalar("u")]}}

MergeInit ==
    /\ mgr = "workflow"
    /\ pc = "merge"
    /\ current_snapshot \in MergeEntities
    /\ desired \in MergeEntities
    /\ trigger_name_to_id = <<>>
    /\ dry_run = FALSE
    /\ delete_missing = FALSE
    /\ update_existing = TRUE
    /\ store = [c \in Collections |-> <<>>]
    /\ next_id = [c \in Collections |-> 1]
    /\ log = <<>>
    /\ summary = <<>>
    /\ var_by_name = EmptyIndex
    /\ trig_by_name = EmptyIndex
    /\ tag_by_name = EmptyIndex
    /\ err = "none"
    /\ err_args = <<>>
    /\ run = "first"
    /\ diff_out = <<>>
    /\ container = <<>>
    /\ frame = <<>>
    /\ fail_at = 0
    /\ heap = <<>>

\* the update body of _sync_variables, _sync_triggers and _sync_tags:
\* merged = _merge_desired_into_current(existing, desired);
\* body = strip_dynamic_fields_deep(merged).  diff_out holds the body.
BuildUpdateBody ==
    /\ pc = "merge"
    /\ LET merged == merge_value(current_snapshot, desired)
       IN diff_out' = strip_value(merged)
    /\ pc' = "merged"
    /\ UNCHANGED <<publish_vars, fail_at, heap, mgr, desired, dry_run, delete_missing, update_existing, store,
                   next_id, log, summary, var_by_name, trig_by_name, tag_by_name,
                   trigger_name_to_id, err, err_args, run, current_snapshot>>

MergeNext == BuildUpdateBody

SpecMerge == MergeInit /\ [][MergeNext]_vars

----------------------------------------------------------------------------
(* The two canonical forms on nested values: normalize_for_diff of the     *)
(* workflow manager and canonicalize_for_diff of the helpers.  Both order  *)
(* list items by a text of the item: repr(x) and json.dumps(x,             *)
(* sort_keys=True).                                                        *)

\* the characters of the keys and strings the values below are made of
TextOf(x) ==
    CASE x = "1" -> <<49>>
      [] x = "2" -> <<50>>
      [] x = "k" -> <<107>>
      [] x = "m" -> <<109>>
      [] x = "p" -> <<112>>
      [] x = "x" -> <<120>>
      [] x = "y" -> <<121>>
      [] x = "path" -> <<112, 97, 116, 104>>
      [] x = "parameter" -> <<112, 97, 114, 97, 109, 101, 116, 101, 114>>
      [] x = "g" -> <<103>>
      [] x = "name" -> <<110, 97, 109, 101>>
      [] x = "firingTriggerId" ->
            <<102, 105, 114, 105, 110, 103, 84, 114, 105, 103, 103, 101, 114, 73, 100>>
      [] x = "blockingTriggerId" ->
            <<98, 108, 111, 99, 107, 105, 110, 103, 84, 114, 105, 103, 103, 101, 114,
              73, 100>>

\* sorted(keys)
RECURSIVE SortedKeys(_)
SortedKeys(ks) ==
    IF ks = {} THEN <<>>
    ELSE LET least == CHOOSE k \in ks :
                          \A o \in ks \ {k} : StrLess(TextOf(k), TextOf(o))
         IN <<least>> \o SortedKeys(ks \ {least})

\* sep.join(parts)
RECURSIVE JoinText(_, _)
JoinText(parts, sep) ==
    IF parts = <<>> THEN <<>>
    ELSE IF Len(parts) = 1 THEN parts[1]
    ELSE parts[1] \o sep \o JoinText(Tail(parts), sep)

\* repr(x) of a value whose dicts have their keys in sorted order, as
\* _stable_jsonish leaves them: None, 'x', [a, b], {'k': a, 'm': b}
RECURSIVE repr(_)
repr(value) ==
    CASE value.kind = "null" -> <<78, 111, 110, 101>>
      [] value.kind = "scalar" -> <<39>> \o TextOf(value.s) \o <<39>>
      [] value.kind = "list" ->
            <<91>> \o JoinText([i \in 1..Len(value.items) |-> repr(value.items[i])],
                               <<44, 32>>) \o <<93>>
      [] value.kind = "map" ->
            LET ks == SortedKeys(DOMAIN value.map)
            IN <<123>> \o JoinText([i \in 1..Len(ks) |->
                                      <<39>> \o TextOf(ks[i]) \o <<39, 58, 32>>
                                          \o repr(value.map[ks[i]])],
                                   <<44, 32>>) \o <<125>>

\* _stable_sort_key: json.dumps(value, sort_keys=True): null, "x", [a, b],
\* {"k": a, "m": b}
RECURSIVE stable_sort_key(_)
stable_sort_key(value) ==
    CASE value.kind = "null" -> <<110, 117, 108, 108>>
      [] value.kind = "scalar" -> <<34>> \o TextOf(value.s) \o <<34>>
      [] value.kind = "list" ->
            <<91>> \o JoinText([i \in 1..Len(value.items) |->
                                  stable_sort_key(value.items[i])],
                               <<44, 32>>) \o <<93>>
      [] value.kind = "map" ->
            LET ks == SortedKeys(DOMAIN value.map)
            IN <<123>> \o JoinText([i \in 1..Len(ks) |->
                                      <<34>> \o TextOf(ks[i]) \o <<34, 58, 32>>
                                          \o stable_sort_key(value.map[ks[i]])],
                                   <<44, 32>>) \o <<125>>

\* a faulty variant: the items in reverse order, unsorted
ReversedItems(xs) == [i \in 1..Len(xs) |-> xs[Len(xs) + 1 - i]]

\* sorted(items, key=lambda x: repr(x)): a stable sort, by insertion
RECURSIVE InsertByRepr(_, _)
InsertByRepr(sorted, x) ==
    IF sorted = <<>> THEN <<x>>
    ELSE IF StrLess(repr(x), repr(sorted[Len(sorted)]))
         THEN Append(InsertByRepr(SubSeq(sorted, 1, Len(sorted) - 1), x),
                     sorted[Len(sorted)])
         ELSE Append(sorted, x)

RECURSIVE SortByRepr(_)
SortByRepr(xs) ==
    IF xs = <<>> THEN <<>>
    ELSE InsertByRepr(SortByRepr(SubSeq(xs, 1, Len(xs) - 1)), xs[Len(xs)])

\* a faulty variant: the items left in the order given
ItemsAsGiven(xs) == xs

\* sorted(canonical_items, key=_stable_sort_key): a stable sort, by insertion
RECURSIVE InsertBySortKey(_, _)
InsertBySortKey(sorted, x) ==
    IF sorted = <<>> THEN <<x>>
    ELSE IF StrLess(stable_sort_key(x), stable_sort_key(sorted[Len(sorted)]))
         THEN Append(InsertBySortKey(SubSeq(sorted, 1, Len(sorted) - 1), x),
                     sorted[Len(sorted)])
         ELSE Append(sorted, x)

RECURSIVE SortBySortKey(_)
SortBySortKey(xs) ==
    IF xs = <<>> THEN <<>>
    ELSE InsertBySortKey(SortBySortKey(SubSeq(xs, 1, Len(xs) - 1)), xs[Len(xs)])

\* _stable_jsonish: a list whose items are all dicts is sorted by repr, another
\* list keeps its order; a dict gets its keys in sorted order
RECURSIVE stable_jsonish(_)
stable_jsonish(value) ==
    IF value.kind = "list"
    THEN LET items == [i \in 1..Len(value.items) |-> stable_jsonish(value.items[i])]
         IN IF \A i \in 1..Len(items) : items[i].kind = "map"
            THEN JList(SortByRepr(items))
            ELSE JList(items)
    ELSE IF value.kind = "map"
    THEN JMap([k \in DOMAIN value.map |-> stable_jsonish(value.map[k])])
    ELSE value

\* normalize_for_diff on a nested entity
normalize_value(entity) ==
    LET stable == stable_jsonish(strip_value(entity))
    IN IF stable.kind = "map" THEN stable ELSE JMap(<<>>)

\* helpers._canonicalize: read-only keys dropped at every depth, every list
\* sorted by _stable_sort_key
RECURSIVE canonicalize_value(_, _)
canonicalize_value(value, read_only_fields) ==
    IF value.kind = "map"
    THEN JMap([k \in DOMAIN value.map \ read_only_fields |->
                 canonicalize_value(value.map[k], read_only_fields)])
    ELSE IF value.kind = "list"
    THEN JList(SortBySortKey([i \in 1..Len(value.items) |->
                 canonicalize_value(value.items[i], read_only_fields)]))
    ELSE value

\* canonicalize_for_diff(value) with the default read-only fields
canonicalize_for_diff(value) == canonicalize_value(value, DEFAULT_READ_ONLY_FIELDS)

\* longest list of a canonicalized entity
MaxItems == 2

\* list items: strings, dicts that differ in a value or only in a field the
\* store manages, and dicts holding lists of dicts and of strings
CanonItems ==
    {JScalar("1"), JScalar("2"),
     JMap([k |-> JScalar("x")]), JMap([k |-> JScalar("y")]),
     JMap([k |-> JScalar("x"), path |-> JScalar("p")]),
     JMap([m |-> JList(<<JMap([k |-> JScalar("y")]), JMap([k |-> JScalar("x")])>>)]),
     JMap([m |-> JList(<<JScalar("2"), JScalar("1")>>)])}

\* an entity with a list field, with or without the store's path
CanonEntities ==
    {JMap(Fields([parameter |-> JList(l)], g)) :
        l \in ListsUpTo(CanonItems, MaxItems),
        g \in {<<>>, [path |-> JScalar("p")]}}

CanonInit ==
    /\ mgr = "workflow"
    /\ pc = "canon"
    /\ current_snapshot \in CanonEntities
    /\ desired = <<>>
    /\ trigger_name_to_id = <<>>
    /\ dry_run = FALSE
    /\ delete_missing = FALSE
    /\ update_existing = TRUE
    /\ store = [c \in Collections |-> <<>>]
    /\ next_id = [c \in Collections |-> 1]
    /\ log = <<>>
    /\ summary = <<>>
    /\ var_by_name = EmptyIndex
    /\ trig_by_name = EmptyIndex
    /\ tag_by_name = EmptyIndex
    /\ err = "none"
    /\ err_args = <<>>
    /\ run = "first"
    /\ diff_out = <<>>
    /\ container = <<>>
    /\ frame = <<>>
    /\ fail_at = 0
    /\ heap = <<>>

\* normalize_for_diff(entity); diff_out.once holds the result
NormalizeForDiff ==
    /\ pc = "canon"
    /\ diff_out' = [once |-> normalize_value(current_snapshot)]
    /\ pc' = "normalized"
    /\ UNCHANGED <<publish_vars, fail_at, heap, mgr, desired, dry_run, delete_missing, update_existing, store,
                   next_id, log, summary, var_by_name, trig_by_name, tag_by_name,
                   trigger_name_to_id, err, err_args, run, current_snapshot>>

\* normalize_for_diff of that result; diff_out.twice holds the second result
NormalizeAgain ==
    /\ pc = "normalized"
    /\ diff_out' = [once |-> diff_out.once, twice |-> normalize_value(diff_out.once)]
    /\ pc' = "normalized_twice"
    /\ UNCHANGED <<publish_vars, fail_at, heap, mgr, desired, dry_run, delete_missing, update_existing, store,
                   next_id, log, summary, var_by_name, trig_by_name, tag_by_name,
                   trigger_name_to_id, err, err_args, run, current_snapshot>>

\* canonicalize_for_diff(entity)
CanonicalizeForDiff ==
    /\ pc = "canon"
    /\ diff_out' = [once |-> canonicalize_for_diff(current_snapshot)]
    /\ pc' = "canonicalized"
    /\ UNCHANGED <<publish_vars, fail_at, heap, mgr, desired, dry_run, delete_missing, update_existing, store,
                   next_id, log, summary, var_by_name, trig_by_name, tag_by_name,
                   trigger_name_to_id, err, err_args, run, current_snapshot>>

\* canonicalize_for_diff of that result
CanonicalizeAgain ==
    /\ pc = "canonicalized"
    /\ diff_out' = [once |-> diff_out.once,
                    twice |-> canonicalize_for_diff(diff_out.once)]
    /\ pc' = "canonicalized_twice"
    /\ UNCHANGED <<publish_vars, fail_at, heap, mgr, desired, dry_run, delete_missing, update_existing, store,
                   next_id, log, summary, var_by_name, trig_by_name, tag_by_name,
                   trigger_name_to_id, err, err_args, run, current_snapshot>>

CanonNext ==
    \/ NormalizeForDiff
    \/ NormalizeAgain
    \/ CanonicalizeForDiff
    \/ CanonicalizeAgain

SpecCanon == CanonInit /\ [][CanonNext]_vars

----------------------------------------------------------------------------
(* One desired tag on its way through _sync_tags, with Python's objects by *)
(* identity: a dict or a list is an object of the heap, a name bound to it  *)
(* is a pointer, and dict(x), a comprehension and {**x} make a new object   *)
(* while an assignment binds the same one.  frame.tag points to the tag the *)
(* caller passed.                                                           *)

NoneVal == [ptr |-> 0, lit |-> "", none |-> TRUE]

Lit(x) == [ptr |-> 0, lit |-> x, none |-> FALSE]

Ptr(n) == [ptr |-> n, lit |-> "", none |-> FALSE]

DictObj(f) == [kind |-> "dict", map |-> f, items |-> <<>>]

ListObj(l) == [kind |-> "list", map |-> <<>>, items |-> l]

\* a new object
Alloc(h, obj) == [heap |-> Append(h, obj), val |-> Ptr(Len(h) + 1)]

\* a faulty variant: out = tag, the same object under another name
dict_alias(h, v) == [heap |-> h, val |-> v]

\* dict(x): a new dict with the same values
dict_copy(h, v) == Alloc(h, h[v.ptr])

\* x[k] = v
SetItem(h, id, k, v) == [h EXCEPT ![id].map = SetKey(@, k, v)]

\* x.pop(k, None)
PopItem(h, id, k) == [h EXCEPT ![id].map = WithoutKeys(@, {k})]

IsDictVal(h, v) == v.ptr # 0 /\ h[v.ptr].kind = "dict"

IsListVal(h, v) == v.ptr # 0 /\ h[v.ptr].kind = "list"

\* the value an object graph has
RECURSIVE ValueOf(_, _)
ValueOf(h, v) ==
    IF v.none THEN JNull
    ELSE IF v.ptr = 0 THEN JScalar(v.lit)
    ELSE IF h[v.ptr].kind = "list"
    THEN JList([i \in 1..Len(h[v.ptr].items) |-> ValueOf(h, h[v.ptr].items[i])])
    ELSE JMap([k \in DOMAIN h[v.ptr].map |-> ValueOf(h, h[v.ptr].map[k])])

\* new objects holding a value: what a literal, a comprehension or a parsed
\* document is
RECURSIVE NewObjects(_, _)
RECURSIVE NewItems(_, _, _)
RECURSIVE NewFields(_, _, _, _)
NewObjects(h, value) ==
    CASE value.kind = "null" -> [heap |-> h, val |-> NoneVal]
      [] value.kind = "scalar" -> [heap |-> h, val |-> Lit(value.s)]
      [] value.kind = "list" ->
            LET r == NewItems(h, value.items, <<>>)
            IN Alloc(r.heap, ListObj(r.vals))
      [] value.kind = "map" ->
            LET r == NewFields(h, value.map, DOMAIN value.map, <<>>)
            IN Alloc(r.heap, DictObj(r.vals))

NewItems(h, items, done) ==
    IF items = <<>> THEN [heap |-> h, vals |-> done]
    ELSE LET r == NewObjects(h, Head(items))
         IN NewItems(r.heap, Tail(items), Append(done, r.val))

NewFields(h, f, keys, done) ==
    IF keys = {} THEN [heap |-> h, vals |-> done]
    ELSE LET k == CHOOSE x \in keys : TRUE
             r == NewObjects(h, f[k])
         IN NewFields(r.heap, f, keys \ {k}, SetKey(done, k, r.val))

\* _lower on the trigger names used here
LowerText(x) == IF x = "T" THEN "t" ELSE x

\* one block of _tag_with_resolved_triggers on the copy out: the names
\* replaced by a new list of ids
resolve_names_field(h, out, names_key, ids_key, name_to_id) ==
    IF HasKey(h[out].map, names_key) /\ IsListVal(h, h[out].map[names_key])
    THEN LET names == h[h[out].map[names_key].ptr].items
             resolved == Alloc(h, ListObj([i \in 1..Len(names) |->
                                   Lit(name_to_id[LowerText(names[i].lit)])]))
         IN PopItem(SetItem(resolved.heap, out, ids_key, resolved.val), out, names_key)
    ELSE h

\* _tag_with_resolved_triggers: out = dict(tag), then the two blocks
tag_object_with_resolved_triggers(h, tag, name_to_id) ==
    LET out == dict_copy(h, tag)
        h1 == resolve_names_field(out.heap, out.val.ptr, "firingTriggerNames",
                                  "firingTriggerId", name_to_id)
        h2 == resolve_names_field(h1, out.val.ptr, "blockingTriggerNames",
                                  "blockingTriggerId", name_to_id)
    IN [heap |-> h2, val |-> out.val]

\* _merge_desired_into_current: a desired list is returned as it is, the same
\* object; two dicts give merged = dict(current), written key by key
RECURSIVE merge_objects(_, _, _)
RECURSIVE merge_items(_, _, _, _)
merge_objects(h, current_v, desired_v) ==
    IF IsListVal(h, desired_v) THEN [heap |-> h, val |-> desired_v]
    ELSE IF ~IsDictVal(h, current_v) \/ ~IsDictVal(h, desired_v)
    THEN [heap |-> h, val |-> desired_v]
    ELSE LET merged == dict_copy(h, current_v)
         IN [heap |-> merge_items(merged.heap, merged.val.ptr, desired_v.ptr,
                                  DOMAIN h[desired_v.ptr].map),
             val |-> merged.val]

merge_items(h, merged, desired_id, keys) ==
    IF keys = {} THEN h
    ELSE LET k == CHOOSE x \in keys : TRUE
             v == h[desired_id].map[k]
         IN IF v.none
            THEN merge_items(SetItem(h, merged, k, NoneVal), merged, desired_id,
                             keys \ {k})
            ELSE LET r == merge_objects(h,
                              \* merged.get(k)
                              IF HasKey(h[merged].map, k) THEN h[merged].map[k]
                              ELSE NoneVal,
                              v)
                 IN merge_items(SetItem(r.heap, merged, k, r.val), merged,
                                desired_id, keys \ {k})

\* strip_dynamic_fields_deep: every list and dict of the result is new
strip_object(h, v) == NewObjects(h, strip_value(ValueOf(h, v)))

\* normalize_for_diff: every list and dict of the result is new
normalize_object(h, v) == NewObjects(h, normalize_value(ValueOf(h, v)))

\* the fake store's create and update: {**existing, **body, "path": ...}
stored_object(h, body) ==
    Alloc(h, DictObj(SetKey(SetKey(h[body.ptr].map, "path", Lit("p")),
                            "fingerprint", Lit("fp"))))

\* the desired tags: triggers by name or by id, with or without blocking
\* names, and a parameter that is a list of dicts, a dict with None, or a dict
\* in a dict
AliasTags ==
    {JMap(Fields([name |-> JScalar("g")], Fields(f, Fields(b, q)))) :
        f \in {[firingTriggerNames |-> JList(<<JScalar("T")>>)],
               [firingTriggerId |-> JList(<<JScalar("1")>>)]},
        b \in {<<>>, [blockingTriggerNames |-> JList(<<JScalar("t")>>)]},
        q \in {<<>>,
               [parameter |-> JList(<<JMap([k |-> JScalar("x")])>>)],
               [parameter |-> JMap([k |-> JScalar("x"), m |-> JNull])],
               [parameter |-> JMap([k |-> JMap([m |-> JScalar("y")])])]}}

\* the tag of that name in the workspace, if there is one
AliasExisting ==
    {JNull} \cup
    {JMap(Fields([name |-> JScalar("g"), path |-> JScalar("p"),
                  firingTriggerId |-> JList(<<JScalar("2")>>)], q)) :
        q \in {<<>>,
               [parameter |-> JMap([k |-> JScalar("y")])],
               [parameter |-> JMap([k |-> JMap([m |-> JScalar("x")])])]}}

\* the heap holds the objects of the caller's tag, then the listed tag's
AliasInit ==
    /\ mgr = "workflow"
    /\ pc = "resolve"
    /\ desired \in AliasTags
    /\ current_snapshot \in AliasExisting
    /\ trigger_name_to_id = [t |-> "1"]
    /\ LET tag == NewObjects(<<>>, desired)
           listed == NewObjects(tag.heap, current_snapshot)
       IN /\ heap = listed.heap
          /\ frame = [tag |-> tag.val, existing |-> listed.val]
    /\ dry_run = FALSE
    /\ delete_missing = FALSE
    /\ update_existing = TRUE
    /\ store = [c \in Collections |-> <<>>]
    /\ next_id = [c \in Collections |-> 1]
    /\ log = <<>>
    /\ summary = <<>>
    /\ var_by_name = EmptyIndex
    /\ trig_by_name = EmptyIndex
    /\ tag_by_name = EmptyIndex
    /\ err = "none"
    /\ err_args = <<>>
    /\ run = "first"
    /\ diff_out = <<>>
    /\ container = <<>>
    /\ fail_at = 0

\* desired_tag = _tag_with_resolved_triggers(raw_desired_tag, ...)
AliasResolveTag ==
    /\ pc = "resolve"
    /\ LET r == tag_object_with_resolved_triggers(heap, frame.tag, trigger_name_to_id)
       IN /\ heap' = r.heap
          /\ frame' = [tag |-> frame.tag, existing |-> frame.existing,
                       desired_tag |-> r.val]
    /\ pc' = IF frame.existing.none THEN "strip" ELSE "compare"
    /\ UNCHANGED <<fail_at, container, mgr, desired, dry_run, delete_missing,
                   update_existing, store, next_id, log, summary, var_by_name,
                   trig_by_name, tag_by_name, trigger_name_to_id, err, err_args,
                   run, current_snapshot, diff_out>>

\* normalize_for_diff(desired_tag) == normalize_for_diff(existing), as
\* _sync_tags and diff_named_entities evaluate it: here they differ
AliasCompare ==
    /\ pc = "compare"
    /\ LET a == normalize_object(heap, frame.desired_tag)
           b == normalize_object(a.heap, frame.existing)
       IN heap' = b.heap
    /\ pc' = "merge"
    /\ UNCHANGED frame
    /\ UNCHANGED <<fail_at, container, mgr, desired, dry_run, delete_missing,
                   update_existing, store, next_id, log, summary, var_by_name,
                   trig_by_name, tag_by_name, trigger_name_to_id, err, err_args,
                   run, current_snapshot, diff_out>>

\* merged = _merge_desired_into_current(existing, desired_tag)
AliasMerge ==
    /\ pc = "merge"
    /\ LET r == merge_objects(heap, frame.existing, frame.desired_tag)
       IN /\ heap' = r.heap
          /\ frame' = [tag |-> frame.tag, existing |-> frame.existing,
                       desired_tag |-> frame.desired_tag, merged |-> r.val]
    /\ pc' = "strip"
    /\ UNCHANGED <<fail_at, container, mgr, desired, dry_run, delete_missing,
                   update_existing, store, next_id, log, summary, var_by_name,
                   trig_by_name, tag_by_name, trigger_name_to_id, err, err_args,
                   run, current_snapshot, diff_out>>

\* body = strip_dynamic_fields_deep(merged), or of desired_tag for a create
AliasStrip ==
    /\ pc = "strip"
    /\ LET r == strip_object(heap, IF frame.existing.none THEN frame.desired_tag
                                   ELSE frame.merged)
       IN /\ heap' = r.heap
          /\ frame' = [k \in DOMAIN frame \cup {"body"} |->
                          IF k = "body" THEN r.val ELSE frame[k]]
    /\ pc' = "send"
    /\ UNCHANGED <<fail_at, container, mgr, desired, dry_run, delete_missing,
                   update_existing, store, next_id, log, summary, var_by_name,
                   trig_by_name, tag_by_name, trigger_name_to_id, err, err_args,
                   run, current_snapshot, diff_out>>

\* create_tag / update_tag with the body
AliasSend ==
    /\ pc = "send"
    /\ LET r == stored_object(heap, frame.body)
       IN /\ heap' = r.heap
          /\ frame' = [k \in DOMAIN frame \cup {"stored"} |->
                          IF k = "stored" THEN r.val ELSE frame[k]]
    /\ pc' = "done"
    /\ UNCHANGED <<fail_at, container, mgr, desired, dry_run, delete_missing,
                   update_existing, store, next_id, log, summary, var_by_name,
                   trig_by_name, tag_by_name, trigger_name_to_id, err, err_args,
                   run, current_snapshot, diff_out>>

AliasNext ==
    \/ AliasResolveTag
    \/ AliasCompare
    \/ AliasMerge
    \/ AliasStrip
    \/ AliasSend

SpecAlias == AliasInit /\ [][AliasNext]_vars

----------------------------------------------------------------------------
(* Listing a collection page by page: list_all_pages, which the variable   *)
(* manager calls, and the tag manager's own loop.  The remote store answers *)
(* a request for a page token, None on the first request, with a page; log  *)
(* holds the tokens it was asked for, frame the loop's locals.              *)

\* most requests one listing is followed for
MaxRequests == 4

\* the page tokens the store hands out
PageTokens == {"p1", "p2"}

\* a page: its items, or none when the collection field is missing, and the
\* token of the next page, which may be missing or empty
Pages ==
    {Fields(i, n) :
        i \in {<<>>, [items |-> <<[id |-> 1]>>],
               [items |-> <<[id |-> 2], [id |-> 3]>>]},
        n \in {<<>>, [nextPageToken |-> ""]}
              \cup {[nextPageToken |-> t] : t \in PageTokens}}

\* `if not page_token`
Falsy(token) == token \in {"None", ""}

\* page.get(items_field) or [] / response.get("tag", []): every item of the
\* pages here is a dict, which list_all_pages keeps
items_of(page) == IF HasKey(page, "items") THEN page["items"] ELSE <<>>

\* a faulty variant: the token of the next page is not read
next_page_token_unread(page) == "None"

\* page.get("nextPageToken")
next_page_token_of(page) ==
    IF HasKey(page, "nextPageToken") THEN page["nextPageToken"] ELSE "None"

PagesInit ==
    /\ mgr \in {"list_all_pages", "tag_manager"}
    /\ pc = "fetch"
    /\ container \in [pages : [{"None"} \cup PageTokens -> Pages]]
    /\ frame = [items |-> <<>>, page_token |-> "None"]
    /\ log = <<>>
    /\ desired = <<>>
    /\ current_snapshot = <<>>
    /\ trigger_name_to_id = <<>>
    /\ dry_run = FALSE
    /\ delete_missing = FALSE
    /\ update_existing = TRUE
    /\ store = [c \in Collections |-> <<>>]
    /\ next_id = [c \in Collections |-> 1]
    /\ summary = <<>>
    /\ var_by_name = EmptyIndex
    /\ trig_by_name = EmptyIndex
    /\ tag_by_name = EmptyIndex
    /\ err = "none"
    /\ err_args = <<>>
    /\ run = "first"
    /\ diff_out = <<>>
    /\ fail_at = 0
    /\ heap = <<>>

\* one turn of the loop: the page for the token held is fetched, its items
\* are appended, its token is kept, and the loop ends when there is none;
\* diff_out holds the list returned
FetchTurn ==
    /\ pc = "fetch"
    /\ Len(log) < MaxRequests
    /\ LET page == container.pages[frame.page_token]
           items == frame.items \o items_of(page)
           page_token == next_page_token_of(page)
       IN /\ log' = Append(log, frame.page_token)
          /\ frame' = [items |-> items, page_token |-> page_token]
          /\ pc' = IF Falsy(page_token) THEN "done" ELSE "fetch"
    /\ UNCHANGED <<fail_at, heap, container, mgr, desired, dry_run, delete_missing,
                   update_existing, store, next_id, summary, var_by_name,
                   trig_by_name, tag_by_name, trigger_name_to_id, err, err_args,
                   run, current_snapshot, diff_out>>

\* list_all_pages, as VariableManager.list_variables_from_workspace_path
\* calls it
ListAllPagesTurn == mgr = "list_all_pages" /\ FetchTurn

\* TagManager._list_tags_by_workspace_path
ListTagsTurn == mgr = "tag_manager" /\ FetchTurn

PagesNext ==
    \/ ListAllPagesTurn
    \/ ListTagsTurn

SpecPages == PagesInit /\ [][PagesNext]_vars

\* the loop is sequential code: a turn that can run does run
SpecPagesFair == SpecPages /\ WF_vars(PagesNext)

----------------------------------------------------------------------------
(* execute_with_retry around one request of a manager: log holds the        *)
(* outcomes of the invocations of fn, that is the times the request was     *)
(* sent; container.script is what the transport answers, send by send.      *)

\* most retries a caller asks for
MaxRetries == 2

\* _RETRYABLE_STATUS_CODES
RETRYABLE_STATUS_CODES == {429, 500, 502, 503, 504}

\* what one send of the request gives: the decoded payload, or an error;
\* status 0 is an HttpError whose response has no integer status
FnOutcomes ==
    {[type |-> "ok", status |-> 200],
     [type |-> "HttpError", status |-> 503],
     [type |-> "HttpError", status |-> 404],
     [type |-> "HttpError", status |-> 0],
     [type |-> "TimeoutError", status |-> 0],
     [type |-> "ValueError", status |-> 0]}

\* is_retryable_google_api_error
is_retryable_google_api_error(error) ==
    IF error.type = "HttpError" THEN error.status \in RETRYABLE_STATUS_CODES
    ELSE error.type \in {"TimeoutError", "ConnectionError", "OSError"}

\* a faulty variant: one attempt more before giving up
gives_up_late(attempt, retries, error) ==
    attempt > retries \/ ~is_retryable_google_api_error(error)

\* `if attempt >= retries or not is_retryable_google_api_error(exc): raise`
gives_up(attempt, retries, error) ==
    attempt >= retries \/ ~is_retryable_google_api_error(error)

\* the request is a list or a create of the variable manager, which passes
\* req.execute as fn; the script is one answer longer than the calls allowed
RetryInit ==
    /\ mgr \in {"list_variables", "create_variable"}
    /\ pc = "call"
    /\ \E retries \in 0..MaxRetries :
          /\ frame = [attempt |-> 0, retries |-> retries]
          /\ container \in [script : [1..(retries + 2) -> FnOutcomes]]
    /\ log = <<>>
    /\ desired = <<>>
    /\ current_snapshot = <<>>
    /\ trigger_name_to_id = <<>>
    /\ dry_run = FALSE
    /\ delete_missing = FALSE
    /\ update_existing = TRUE
    /\ store = [c \in Collections |-> <<>>]
    /\ next_id = [c \in Collections |-> 1]
    /\ summary = <<>>
    /\ var_by_name = EmptyIndex
    /\ trig_by_name = EmptyIndex
    /\ tag_by_name = EmptyIndex
    /\ err = "none"
    /\ err_args = <<>>
    /\ run = "first"
    /\ diff_out = <<>>
    /\ fail_at = 0
    /\ heap = <<>>

\* `return fn()`, and the except clause when fn raises: the error is raised
\* again, or the loop goes to sleep
RetryInvoke ==
    /\ pc = "call"
    /\ Len(log) < Len(container.script)
    /\ LET outcome == container.script[Len(log) + 1]
       IN /\ log' = Append(log, outcome)
          /\ IF outcome.type = "ok"
             THEN /\ pc' = "done"
                  /\ diff_out' = [result_of |-> Len(log) + 1]
                  /\ UNCHANGED <<err, err_args>>
             ELSE IF gives_up(frame.attempt, frame.retries, outcome)
             THEN /\ pc' = "raised"
                  /\ err' = outcome.type
                  /\ err_args' = <<Len(log) + 1>>
                  /\ UNCHANGED diff_out
             ELSE /\ pc' = "sleep"
                  /\ UNCHANGED <<err, err_args, diff_out>>
    /\ UNCHANGED frame
    /\ UNCHANGED <<fail_at, heap, container, mgr, desired, dry_run, delete_missing,
                   update_existing, store, next_id, summary, var_by_name,
                   trig_by_name, tag_by_name, trigger_name_to_id, run,
                   current_snapshot>>

\* time.sleep(delay_s); attempt += 1
RetryBackoff ==
    /\ pc = "sleep"
    /\ frame' = [frame EXCEPT !.attempt = @ + 1]
    /\ pc' = "call"
    /\ UNCHANGED <<log, err, err_args, diff_out>>
    /\ UNCHANGED <<fail_at, heap, container, mgr, desired, dry_run, delete_missing,
                   update_existing, store, next_id, summary, var_by_name,
                   trig_by_name, tag_by_name, trigger_name_to_id, run,
                   current_snapshot>>

RetryNext ==
    \/ RetryInvoke
    \/ RetryBackoff

SpecRetry == RetryInit /\ [][RetryNext]_vars

\* fn and time.sleep return: a step that can run does run
SpecRetryFair == SpecRetry /\ WF_vars(RetryNext)

----------------------------------------------------------------------------
(* WorkspaceWorkflowManager.publish_from_workspace as a state machine: one  *)
(* step up to the dry-run return, one per remote call after it.  The remote *)
(* container lists workspaces, creates one, creates a version and publishes *)
(* it; log holds the calls it received.                                     *)

\* most workspaces the container lists
MaxWorkspaces == 2

\* "iac", "x": the workspace the caller names, and another one
NameIac == <<105, 97, 99>>
NameOther == <<120>>

\* ContainerManager.workspace_path, from the workspace id on
workspace_path(workspace_id) == <<119>> \o workspace_id

\* workspaces as the container lists them: with id and path, with the id
\* alone, with neither, with a blank path; and a workspace of another name
WorkspacePool ==
    {[name |-> NameIac, workspaceId |-> <<49>>, path |-> workspace_path(<<49>>)],
     [name |-> NameIac, workspaceId |-> <<50>>],
     [name |-> NameIac],
     [name |-> NameIac, workspaceId |-> <<51>>, path |-> <<32>>],
     [name |-> NameOther, workspaceId |-> <<52>>, path |-> workspace_path(<<52>>)]}

\* the workspace the container answers a create call with
CreatedWorkspace(name) ==
    [name |-> name, workspaceId |-> <<57>>, path |-> workspace_path(<<57>>)]

\* "v42": the path of the version the container creates
VersionPath == <<118, 52, 50>>

\* what the container answers a create-version call with: the version with
\* its path, without it, with a blank path, no version at all, or the
\* version itself in place of the answer that should hold it
VersionReplies ==
    {[containerVersion |-> [path |-> VersionPath, name |-> "Release"]],
     [containerVersion |-> [name |-> "Release"]],
     [containerVersion |-> [path |-> <<32>>, name |-> "Release"]],
     <<>>,
     [path |-> VersionPath, name |-> "Release"]}

\* get_or_create_workspace: the workspaces are listed; the first of the
\* name is the answer; without one the workspace is created when
\* create_if_missing says so.  The result is [err, workspace, calls].
get_or_create_workspace(workspace_name, create_if_missing) ==
    LET listed == container.workspaces
        named == {i \in 1..Len(listed) : StrippedName(listed[i]) = workspace_name}
        list_call == [op |-> "list_workspaces"]
    IN IF named # {}
       THEN [err |-> "none", calls |-> <<list_call>>,
             workspace |-> listed[CHOOSE i \in named : \A j \in named : i =< j]]
       ELSE IF create_if_missing
       THEN [err |-> "none",
             calls |-> <<list_call, [op |-> "create_workspace", name |-> workspace_name]>>,
             workspace |-> CreatedWorkspace(workspace_name)]
       ELSE [err |-> "workspace_not_found", calls |-> <<list_call>>, workspace |-> <<>>]

\* _workspace_path_from_workspace_payload: the payload's path, or the path
\* built from its id; NoPath when the result is not a non-blank string
workspace_path_from_workspace_payload(workspace) ==
    LET path == IF HasKey(workspace, "path") /\ workspace["path"] # <<>>
                THEN workspace["path"]
                ELSE IF HasKey(workspace, "workspaceId") /\ workspace["workspaceId"] # <<>>
                THEN workspace_path(workspace["workspaceId"])
                ELSE NoPath
    IN IF Strip(path) = <<>> THEN NoPath ELSE path

\* _get_workspace_path
get_workspace_path(workspace_name, create_if_missing) ==
    LET got == get_or_create_workspace(workspace_name, create_if_missing)
        path == workspace_path_from_workspace_payload(got.workspace)
    IN IF got.err # "none" THEN [err |-> got.err, calls |-> got.calls, path |-> NoPath]
       ELSE IF path = NoPath
       THEN [err |-> "workspace_path_missing", calls |-> got.calls, path |-> NoPath]
       ELSE [err |-> "none", calls |-> got.calls, path |-> path]

\* a faulty variant: a version path made up when the answer has none
version_path_made_up(created) ==
    LET version == IF HasKey(created, "containerVersion")
                   THEN created["containerVersion"] ELSE <<>>
    IN IF HasKey(version, "path") /\ Strip(version["path"]) # <<>>
       THEN version["path"] ELSE <<118>>

\* the version path publish_from_workspace reads in the create-version
\* answer; NoPath when there is no non-blank one
version_path_of(created) ==
    LET version == IF HasKey(created, "containerVersion")
                   THEN created["containerVersion"] ELSE <<>>
        path == IF HasKey(version, "path") THEN version["path"] ELSE NoPath
    IN IF Strip(path) = <<>> THEN NoPath ELSE path

\* the version path ContainerManager.publish_workspace reads in the
\* create-version answer: the path of its containerVersion, or of the
\* answer itself when it has no containerVersion; NoPath when it is falsy
cm_version_path_of(create_result) ==
    LET container_version == IF HasKey(create_result, "containerVersion")
                             THEN create_result["containerVersion"]
                             ELSE create_result
    IN IF HasKey(container_version, "path") THEN container_version["path"] ELSE NoPath

\* a faulty variant: a failed publish call is made again
publish_container_version_again(calls, version_path) ==
    LET call == [op |-> "publish", path |-> version_path]
    IN IF container.publish_fails
       THEN [err |-> "remote_error", calls |-> calls \o <<call, call>>,
             published |-> container.published]
       ELSE [err |-> "none", calls |-> Append(calls, call),
             published |-> Append(container.published, version_path)]

\* publish_container_version: one publish call, which the container answers
\* or fails; the result is [err, calls, published]
publish_container_version(calls, version_path) ==
    LET call == [op |-> "publish", path |-> version_path]
    IN IF container.publish_fails
       THEN [err |-> "remote_error", calls |-> Append(calls, call),
             published |-> container.published]
       ELSE [err |-> "none", calls |-> Append(calls, call),
             published |-> Append(container.published, version_path)]

\* ContainerManager.publish_workspace works on workspace "3" and lists no
\* workspaces
PublishInit ==
    /\ mgr \in {"workflow", "container"}
    /\ pc = "workspace"
    /\ dry_run \in BOOLEAN
    /\ container \in [workspaces : IF mgr = "workflow"
                                   THEN ListsUpTo(WorkspacePool, MaxWorkspaces)
                                   ELSE {<<>>},
                      version_reply : VersionReplies,
                      publish_fails : BOOLEAN,
                      \* the versions the container holds, and those published
                      versions : {<<>>},
                      published : {<<>>}]
    /\ frame = <<>>
    /\ fail_at = 0
    /\ heap = <<>>
    /\ desired = <<>>
    /\ trigger_name_to_id = <<>>
    /\ current_snapshot = <<>>
    /\ delete_missing = FALSE
    /\ update_existing = TRUE
    /\ store = [c \in Collections |-> <<>>]
    /\ next_id = [c \in Collections |-> 1]
    /\ log = <<>>
    /\ summary = <<>>
    /\ var_by_name = EmptyIndex
    /\ trig_by_name = EmptyIndex
    /\ tag_by_name = EmptyIndex
    /\ err = "none"
    /\ err_args = <<>>
    /\ run = "first"
    /\ diff_out = <<>>

\* publish_from_workspace up to the return of a dry run: the workspace path
\* is resolved with create_if_missing=True, then dry_run is looked at
PublishResolveWorkspace ==
    /\ mgr = "workflow" /\ pc = "workspace"
    /\ LET got == get_workspace_path(NameIac, TRUE)
       IN /\ log' = log \o got.calls
          /\ container' =
                IF Len(got.calls) = 2
                THEN [container EXCEPT !.workspaces = Append(@, CreatedWorkspace(NameIac))]
                ELSE container
          /\ err' = got.err
          /\ frame' = IF got.err = "none" THEN [workspace_path |-> got.path] ELSE frame
          /\ diff_out' = IF got.err = "none" /\ dry_run
                         THEN [dryRun |-> TRUE, action |-> "publish",
                               workspacePath |-> got.path, versionName |-> "Release"]
                         ELSE diff_out
          /\ pc' = IF got.err # "none" THEN "raised"
                   ELSE IF dry_run THEN "done" ELSE "create_version"
    /\ UNCHANGED <<fail_at, heap, mgr, desired, dry_run, delete_missing, update_existing, store,
                   next_id, summary, var_by_name, trig_by_name, tag_by_name,
                   trigger_name_to_id, err_args, run, current_snapshot>>

\* create_container_version_from_workspace, and the reading of its answer
PublishCreateVersion ==
    /\ mgr = "workflow" /\ pc = "create_version"
    /\ LET created == container.version_reply
           version_path == version_path_of(created)
       IN /\ log' = Append(log, [op |-> "create_version",
                                 workspace_path |-> frame.workspace_path,
                                 name |-> "Release", notes |-> "Notes"])
          /\ frame' = [workspace_path |-> frame.workspace_path, created |-> created,
                       version_path |-> version_path]
          /\ err' = IF version_path = NoPath THEN "missing_version_path" ELSE err
          /\ container' = [container EXCEPT !.versions = Append(@, created)]
          /\ pc' = IF version_path = NoPath THEN "raised" ELSE "publish"
    /\ UNCHANGED <<fail_at, heap, mgr, desired, dry_run, delete_missing, update_existing, store,
                   next_id, summary, var_by_name, trig_by_name, tag_by_name,
                   trigger_name_to_id, err_args, run, current_snapshot, diff_out>>

\* publish_container_version, and the return
PublishVersion ==
    /\ mgr = "workflow" /\ pc = "publish"
    /\ LET r == publish_container_version(log, frame.version_path)
       IN /\ log' = r.calls
          /\ container' = [container EXCEPT !.published = r.published]
    /\ IF container.publish_fails
       THEN /\ err' = "remote_error"
            /\ pc' = "raised"
            /\ diff_out' = diff_out
       ELSE /\ err' = err
            /\ pc' = "done"
            /\ diff_out' = [created |-> frame.created,
                            published |-> [containerVersion |->
                                              [path |-> frame.version_path]]]
    /\ UNCHANGED <<fail_at, heap, mgr, desired, dry_run, delete_missing, update_existing, store,
                   next_id, summary, var_by_name, trig_by_name, tag_by_name,
                   trigger_name_to_id, err_args, run, current_snapshot, frame>>

\* ContainerManager.publish_workspace up to the return of a dry run: the
\* workspace path is built from the ids, no call is made
CMPublishBegin ==
    /\ mgr = "container" /\ pc = "workspace"
    /\ frame' = [workspace_path |-> workspace_path(<<51>>)]
    /\ diff_out' = IF dry_run
                   THEN [dry_run |-> TRUE, workspacePath |-> workspace_path(<<51>>),
                         versionName |-> "Release", notes |-> "Notes"]
                   ELSE diff_out
    /\ pc' = IF dry_run THEN "done" ELSE "create_version"
    /\ UNCHANGED <<fail_at, heap, mgr, desired, dry_run, delete_missing, update_existing, store,
                   next_id, log, summary, var_by_name, trig_by_name, tag_by_name,
                   trigger_name_to_id, err, err_args, run, current_snapshot,
                   container>>

\* create_container_version, and the reading of its answer
CMPublishCreateVersion ==
    /\ mgr = "container" /\ pc = "create_version"
    /\ LET create_result == container.version_reply
           version_path == cm_version_path_of(create_result)
       IN /\ log' = Append(log, [op |-> "create_version",
                                 workspace_path |-> frame.workspace_path,
                                 name |-> "Release", notes |-> "Notes"])
          /\ frame' = [workspace_path |-> frame.workspace_path,
                       created |-> create_result, version_path |-> version_path]
          /\ err' = IF version_path = NoPath THEN "missing_version_path" ELSE err
          /\ container' = [container EXCEPT !.versions = Append(@, create_result)]
          /\ pc' = IF version_path = NoPath THEN "raised" ELSE "publish"
    /\ UNCHANGED <<fail_at, heap, mgr, desired, dry_run, delete_missing, update_existing, store,
                   next_id, summary, var_by_name, trig_by_name, tag_by_name,
                   trigger_name_to_id, err_args, run, current_snapshot, diff_out>>

\* publish_container_version, and the return
CMPublishVersion ==
    /\ mgr = "container" /\ pc = "publish"
    /\ LET r == publish_container_version(log, frame.version_path)
       IN /\ log' = r.calls
          /\ container' = [container EXCEPT !.published = r.published]
    /\ IF container.publish_fails
       THEN /\ err' = "remote_error"
            /\ pc' = "raised"
            /\ diff_out' = diff_out
       ELSE /\ err' = err
            /\ pc' = "done"
            /\ diff_out' = [workspacePath |-> frame.workspace_path,
                            containerVersionPath |-> frame.version_path,
                            createVersion |-> frame.created,
                            publish |-> [containerVersion |->
                                            [path |-> frame.version_path]]]
    /\ UNCHANGED <<fail_at, heap, mgr, desired, dry_run, delete_missing, update_existing, store,
                   next_id, summary, var_by_name, trig_by_name, tag_by_name,
                   trigger_name_to_id, err_args, run, current_snapshot, frame>>

PublishNext ==
    \/ PublishResolveWorkspace
    \/ PublishCreateVersion
    \/ PublishVersion
    \/ CMPublishBegin
    \/ CMPublishCreateVersion
    \/ CMPublishVersion

SpecPublish == PublishInit /\ [][PublishNext]_vars

----------------------------------------------------------------------------
(* WorkspaceWorkflowManager.sync_workspace from its first statement: the    *)
(* workspace path is resolved by name, then the phases run.  log holds the  *)
(* calls of the container and of the workspace's collections.               *)

\* desired snapshots of at most one entity
EntryDesired ==
    {sn \in DesiredSnapshots :
        Len(sn.variables) + Len(sn.triggers) + Len(sn.tags) =< 1}

EntryInit ==
    /\ mgr = "workflow"
    /\ pc = "workspace"
    /\ desired \in EntryDesired
    /\ dry_run \in BOOLEAN
    /\ delete_missing \in BOOLEAN
    /\ update_existing = TRUE
    /\ container \in [workspaces : ListsUpTo(WorkspacePool, MaxWorkspaces)]
    /\ store \in InitialStores
    /\ next_id = [c \in Collections |-> Len(store[c]) + 1]
    /\ log = <<>>
    /\ summary = init_summary
    /\ var_by_name = EmptyIndex
    /\ trig_by_name = EmptyIndex
    /\ tag_by_name = EmptyIndex
    /\ trigger_name_to_id = <<>>
    /\ err = "none"
    /\ err_args = <<>>
    /\ run = "first"
    /\ current_snapshot = <<>>
    /\ diff_out = <<>>
    /\ frame = <<>>
    /\ fail_at = 0
    /\ heap = <<>>

\* sync_workspace up to _init_summary: _get_workspace_path is called with
\* create_if_missing=True, whatever dry_run is
SyncResolveWorkspace ==
    /\ mgr = "workflow" /\ pc = "workspace"
    /\ LET got == get_workspace_path(NameIac, TRUE)
       IN /\ log' = log \o got.calls
          /\ container' =
                IF Len(got.calls) = 2
                THEN [container EXCEPT !.workspaces = Append(@, CreatedWorkspace(NameIac))]
                ELSE container
          /\ err' = got.err
          /\ frame' = IF got.err = "none" THEN [workspace_path |-> got.path] ELSE frame
          /\ pc' = IF got.err # "none" THEN "raised" ELSE SyncOrder[1]
    /\ UNCHANGED <<fail_at, heap, mgr, desired, dry_run, delete_missing, update_existing, store,
                   next_id, summary, var_by_name, trig_by_name, tag_by_name,
                   trigger_name_to_id, err_args, run, current_snapshot, diff_out>>

EntryNext ==
    \/ SyncResolveWorkspace
    \/ SyncVariables
    \/ SyncTriggers
    \/ SyncTags
    \/ ApplyDeletes

SpecEntry == EntryInit /\ [][EntryNext]_vars

----------------------------------------------------------------------------
(* Two live sync_workspace calls on one workspace, with the same desired    *)
(* snapshot.  Each call keeps its own listing, desired index and trigger    *)
(* map (frame[p]); the store, its id counters and the log of the calls it   *)
(* received are shared.  A step is one remote call with the local work      *)
(* around it: the list call of a phase, or one iteration of an upsert loop. *)

Callers == {1, 2}

\* what the remote store does with a create whose name an entity of the
\* collection already has: it keeps both, it keeps the new one in place of
\* the old one (as the dict of the tests' store does), or it rejects the call
DuplicateOutcomes == {"kept_both", "replaced", "rejected"}

PhaseOrder == <<"variables", "triggers", "tags">>

UpsertPhaseAfter(phase) ==
    CASE phase = "variables" -> "triggers"
      [] phase = "triggers" -> "tags"
      [] phase = "tags" -> "done"

RaceInit ==
    /\ mgr = "workflow"
    /\ pc = "running"
    /\ desired \in EntryDesired
    /\ dry_run = FALSE
    /\ delete_missing = FALSE
    /\ update_existing = TRUE
    /\ store \in InitialStores
    /\ next_id = [c \in Collections |-> Len(store[c]) + 1]
    /\ log = <<>>
    /\ summary = init_summary
    /\ frame = [c \in Callers |->
                   [phase |-> PhaseOrder[1], listed |-> FALSE, current |-> <<>>,
                    todo |-> <<>>, map |-> <<>>, err |-> "none"]]
    /\ var_by_name = EmptyIndex
    /\ trig_by_name = EmptyIndex
    /\ tag_by_name = EmptyIndex
    /\ trigger_name_to_id = <<>>
    /\ err = "none"
    /\ err_args = <<>>
    /\ run = "first"
    /\ current_snapshot = <<>>
    /\ diff_out = <<>>
    /\ container = <<>>
    /\ fail_at = 0
    /\ heap = <<>>

\* the first statements of _sync_variables, _sync_triggers or _sync_tags of
\* one caller: the list call and the two indexes; a phase with nothing
\* desired ends here
RaceList(caller) ==
    /\ pc = "running"
    /\ frame[caller].phase \in Collections /\ ~frame[caller].listed
    /\ LET coll == frame[caller].phase
           current == StoreList(store, coll)
           todo == index_by_name(desired[coll])
           map == IF coll = "triggers" THEN name_to_id_from(<<>>, current)
                  ELSE frame[caller].map
       IN frame' = [frame EXCEPT ![caller] =
                       IF todo = <<>>
                       THEN [@ EXCEPT !.phase = UpsertPhaseAfter(coll), !.map = map]
                       ELSE [@ EXCEPT !.listed = TRUE, !.map = map, !.todo = todo,
                                      !.current = index_by_name(current)]]
    /\ UNCHANGED <<fail_at, heap, container, mgr, desired, dry_run, delete_missing,
                   update_existing, store, next_id, log, summary, var_by_name,
                   trig_by_name, tag_by_name, trigger_name_to_id, err, err_args,
                   run, current_snapshot, diff_out, pc>>

\* one iteration of the upsert loop of one caller, on the store as it is now
\* and the listing the caller made at the start of the phase
RaceUpsert(caller) ==
    /\ pc = "running"
    /\ frame[caller].phase \in Collections /\ frame[caller].listed
    /\ LET coll == frame[caller].phase
           item == Head(frame[caller].todo)
           start == [CallState EXCEPT !.map = frame[caller].map]
           acc == CASE coll = "variables" ->
                         sync_variable(start, item.k, item.e, frame[caller].current)
                    [] coll = "triggers" ->
                         sync_trigger(start, item.k, item.e, frame[caller].current)
                    [] coll = "tags" ->
                         sync_tag(start, item.k, item.e, frame[caller].current)
           created == acc.err = "none" /\ Len(acc.log) > Len(log)
                         /\ acc.log[Len(acc.log)].op = "create"
           duplicate == created /\ IndexHas(store[coll], item.k)
           rest == Tail(frame[caller].todo)
           after(e) ==
               [frame[caller] EXCEPT
                   !.todo = rest, !.map = acc.map, !.err = e,
                   !.listed = (e = "none" /\ rest # <<>>),
                   !.phase = IF e # "none" THEN "raised"
                             ELSE IF rest = <<>> THEN UpsertPhaseAfter(coll) ELSE @]
       IN \E outcome \in DuplicateOutcomes :
             /\ ~duplicate => outcome = "replaced"
             /\ IF duplicate /\ outcome = "rejected"
                THEN /\ frame' = [frame EXCEPT ![caller] = after("remote_error")]
                     /\ log' = acc.log
                     /\ UNCHANGED <<store, next_id>>
                ELSE /\ frame' = [frame EXCEPT ![caller] = after(acc.err)]
                     /\ log' = acc.log
                     /\ next_id' = acc.next_id
                     /\ store' = IF duplicate /\ outcome = "kept_both"
                                 THEN [store EXCEPT ![coll] =
                                          Append(@, [k |-> item.k, e |-> acc.ret])]
                                 ELSE acc.store
    /\ UNCHANGED <<fail_at, heap, container, mgr, desired, dry_run, delete_missing,
                   update_existing, summary, var_by_name, trig_by_name, tag_by_name,
                   trigger_name_to_id, err, err_args, run, current_snapshot,
                   diff_out, pc>>

RaceNext ==
    \E caller \in Callers :
        \/ RaceList(caller)
        \/ RaceUpsert(caller)

SpecRace == RaceInit /\ [][RaceNext]_vars

----------------------------------------------------------------------------
(* Properties of the sync calls *)

IsUpsert(call) == call.op \in {"create", "update"}

IsDelete(call) == call.op = "delete"

Count(list, x) == Cardinality({i \in 1..Len(list) : list[i] = x})

DesiredIndex(coll) == index_by_name(desired[coll])

\* C1: with dry_run set, neither sync_workspace sends a create, update or
\* delete call to the remote store, whatever the desired snapshot, the
\* workspace and the other flags are; the plan is only in the summary.
C1_DryRunIssuesNoMutation == dry_run => log = <<>>

C1_Witness ==
    /\ dry_run /\ pc = "done" /\ mgr = "workflow"
    /\ \E a, b, c \in Collections :
          /\ summary[a].created # <<>>
          /\ summary[b].updated # <<>>
          /\ summary[c].deleted # <<>>

\* C2: a dry-run sync_workspace whose desired snapshot holds one trigger that
\* is not in the workspace and one tag naming it in firingTriggerNames does
\* not raise, and reports both as created.
C2_Case ==
    /\ mgr = "workflow" /\ dry_run
    /\ desired.variables = <<>>
    /\ Len(desired.triggers) = 1 /\ Len(desired.tags) = 1
    /\ store.triggers = <<>> /\ store.tags = <<>>
    /\ HasKey(desired.tags[1], "firingTriggerNames")
    /\ ~HasKey(desired.tags[1], "firingTriggerId")
    /\ \A n \in Range(desired.tags[1]["firingTriggerNames"]) :
          LowerName(n) = LowerName(desired.triggers[1]["name"])

C2_DryRunAllowsNewTriggerReference ==
    C2_Case =>
        /\ pc # "raised"
        /\ pc = "done" =>
              /\ summary.triggers.created = <<desired.triggers[1]["name"]>>
              /\ summary.tags.created = <<desired.tags[1]["name"]>>

\* C3: a sync_workspace repeated right after a live one that returned, with
\* the same snapshot and flags, sends no call and reports every desired name
\* as skipped.
C3_RepeatedSyncIsNoOp ==
    (mgr = "workflow" /\ run = "repeated") =>
        /\ log = <<>>
        /\ pc # "raised"
        /\ pc = "done" =>
              \A c \in Collections :
                 /\ summary[c].created = <<>>
                 /\ summary[c].updated = <<>>
                 /\ \A i \in 1..Len(DesiredIndex(c)) :
                       DesiredIndex(c)[i].e["name"] \in Range(summary[c].skipped)

\* C4: after a live sync_workspace with delete_missing, no tag of the
\* workspace references (firingTriggerId, blockingTriggerId) the id of a
\* trigger this call deleted.
C4_NoTagReferencesDeletedTrigger ==
    (mgr = "workflow" /\ ~dry_run /\ delete_missing /\ pc = "done") =>
        \A i \in 1..Len(store.tags) : \A k \in IdListKeys \cap DOMAIN store.tags[i].e :
            \A id \in Range(store.tags[i].e[k]) :
                ~\E j \in 1..Len(log) :
                    /\ IsDelete(log[j]) /\ log[j].coll = "triggers"
                    /\ log[j].path = PathOf("triggers", id)

UpsertRank(coll) ==
    CASE coll = "variables" -> 1 [] coll = "triggers" -> 2 [] coll = "tags" -> 3

\* C5: in every sync call the create/update calls on variables come before
\* those on triggers, and those on triggers before those on tags.
C5_UpsertsInDependencyOrder ==
    \A i, j \in 1..Len(log) :
        (i < j /\ IsUpsert(log[i]) /\ IsUpsert(log[j])) =>
            UpsertRank(log[i].coll) =< UpsertRank(log[j].coll)

C5_Witness ==
    \E i, j, k \in 1..Len(log) :
        /\ i < j /\ j < k
        /\ IsUpsert(log[i]) /\ log[i].coll = "variables"
        /\ IsUpsert(log[j]) /\ log[j].coll = "triggers"
        /\ IsUpsert(log[k]) /\ log[k].coll = "tags"

\* C6: the delete calls on tags come before those on triggers, those on
\* triggers before those on variables, and every delete call comes after
\* every create/update call of the same sync call.
C6_DeletesInReverseOrderAfterUpserts ==
    \A i, j \in 1..Len(log) :
        (i < j /\ IsDelete(log[i])) =>
            /\ IsDelete(log[j])
            /\ UpsertRank(log[i].coll) >= UpsertRank(log[j].coll)

C6_Witness ==
    \E h, i, j, k \in 1..Len(log) :
        /\ IsUpsert(log[h])
        /\ IsDelete(log[i]) /\ log[i].coll = "tags"
        /\ IsDelete(log[j]) /\ log[j].coll = "triggers"
        /\ IsDelete(log[k]) /\ log[k].coll = "variables"

\* the create call of this sync call for the trigger of that (lower-cased)
\* name, 0 when the call created no such trigger
TriggerCreation(name_lower) ==
    LET hits == {j \in 1..Len(log) :
                    /\ log[j].op = "create" /\ log[j].coll = "triggers"
                    /\ LowerName(log[j].body["name"]) = name_lower}
    IN IF hits = {} THEN 0 ELSE CHOOSE j \in hits : TRUE

\* C7: in a live sync_workspace a desired tag naming triggers created earlier
\* in the same call is created with the ids the store returned for those
\* creations, and the call never fails to resolve the name of a trigger that
\* is in the desired snapshot or in the workspace.
C7_SamePassTriggerResolution ==
    (mgr = "workflow" /\ ~dry_run) =>
        /\ \A g \in 1..Len(log) :
              (log[g].op = "create" /\ log[g].coll = "tags") =>
                 LET raw == IndexGet(DesiredIndex("tags"), LowerName(log[g].body["name"]))
                     \* blank entries of the name list refer to no trigger
                     named == IF HasKey(raw, "firingTriggerNames")
                              THEN SelectSeq(raw["firingTriggerNames"],
                                             LAMBDA n : Strip(n) # <<>>)
                              ELSE <<>>
                 IN HasKey(raw, "firingTriggerNames") =>
                       /\ Len(log[g].body["firingTriggerId"]) = Len(named)
                       /\ \A p \in 1..Len(named) :
                             LET c == TriggerCreation(LowerName(named[p]))
                             IN c # 0 =>
                                   log[g].body["firingTriggerId"][p] = log[c].ret["triggerId"]
        /\ (pc = "raised" /\ err = "missing_reference") =>
              \E i \in 1..Len(DesiredIndex("tags")) :
                 \E k \in NameListKeys \cap DOMAIN DesiredIndex("tags")[i].e :
                    \E n \in Range(DesiredIndex("tags")[i].e[k]) :
                       /\ ~IndexHas(DesiredIndex("triggers"), LowerName(n))
                       /\ ~IndexHas(trig_by_name, LowerName(n))

C7_Witness ==
    /\ mgr = "workflow" /\ ~dry_run /\ pc = "done" /\ run = "first"
    /\ \E g \in 1..Len(log) :
          /\ log[g].op = "create" /\ log[g].coll = "tags"
          /\ HasKey(IndexGet(DesiredIndex("tags"), LowerName(log[g].body["name"])),
                    "firingTriggerNames")
          /\ \E c \in 1..Len(log) :
                /\ c = TriggerCreation(LowerName(NameT))
                /\ log[g].body["firingTriggerId"] = <<log[c].ret["triggerId"]>>

\* the tag _sync_tags compares and sends: the desired tag with its trigger
\* names resolved; another entity as it is
Compared(coll, e) ==
    IF coll # "tags" THEN e
    ELSE LET r == tag_with_resolved_triggers(e, trigger_name_to_id)
         IN IF r.err = "none" THEN r.tag ELSE e

\* the list the rule of the claim assigns a desired entity to
Expected(coll, e) ==
    LET key == LowerName(e["name"])
        cur == CurrentIndexOf(coll)
    IN IF ~IndexHas(cur, key) THEN "created"
       ELSE IF ~update_existing THEN "skipped"
       ELSE IF normalize_for_diff(Compared(coll, e)) = normalize_for_diff(IndexGet(cur, key))
       THEN "skipped"
       ELSE "updated"

PlacedOnlyIn(coll, name, cat) ==
    \A k \in {"created", "updated", "skipped"} :
        Count(summary[coll][k], name) = IF k = cat THEN 1 ELSE 0

NoUpdateCallUnlessUpdateExisting ==
    ~update_existing => \A i \in 1..Len(log) : log[i].op # "update"

\* C8 as stated: every desired entity with a non-blank name is in exactly
\* one of created, updated, skipped, the one the rule gives for that entity;
\* and there is no update call when update_existing is false.
C8_EveryDesiredEntityClassified ==
    (mgr = "workflow" /\ pc = "done") =>
        /\ \A c \in Collections : \A i \in 1..Len(desired[c]) :
              HasName(desired[c][i]) =>
                 PlacedOnlyIn(c, desired[c][i]["name"], Expected(c, desired[c][i]))
        /\ NoUpdateCallUnlessUpdateExisting

\* C8 amended: of the desired entities of a type that share a trimmed,
\* case-insensitive name only the last is classified; it is in exactly one
\* of created, updated, skipped, the one the rule gives for it, nothing else
\* is in those lists, and there is no update call when update_existing is
\* false.
C8_EachDesiredNameClassifiedOnce ==
    /\ (mgr = "workflow" /\ pc = "done") =>
          \A c \in Collections :
             /\ \A i \in 1..Len(DesiredIndex(c)) :
                   PlacedOnlyIn(c, DesiredIndex(c)[i].e["name"],
                                Expected(c, DesiredIndex(c)[i].e))
             /\ Len(summary[c].created) + Len(summary[c].updated)
                   + Len(summary[c].skipped) = Len(DesiredIndex(c))
    /\ mgr = "workflow" => NoUpdateCallUnlessUpdateExisting

C8_Witness ==
    /\ mgr = "workflow" /\ pc = "done" /\ update_existing
    /\ \E c \in Collections :
          /\ Len(desired[c]) = 2 /\ Len(DesiredIndex(c)) = 1
          /\ desired[c][1]["name"] # desired[c][2]["name"]
          /\ summary[c].updated # <<>>

\* the names of a list of entities, trimmed and lower-cased
KeysIn(entities) ==
    {LowerName(entities[i]["name"]) : i \in {j \in 1..Len(entities) : HasName(entities[j])}}

\* the last entity of a list that has the name key
LastNamed(entities, key) ==
    LET at == {i \in 1..Len(entities) :
                  HasName(entities[i]) /\ LowerName(entities[i]["name"]) = key}
    IN entities[CHOOSE i \in at : \A j \in at : j =< i]

LoweredNames(names) == {LowerName(names[i]) : i \in 1..Len(names)}

DiffAsClaimed(desired_l, current_l, d) ==
    LET both == KeysIn(desired_l) \cap KeysIn(current_l)
        differ == {k \in both : normalize_for_diff(LastNamed(desired_l, k))
                                   # normalize_for_diff(LastNamed(current_l, k))}
    IN /\ Range(d.create) =
             {LastNamed(desired_l, k)["name"] : k \in KeysIn(desired_l) \ KeysIn(current_l)}
       /\ Range(d.delete) =
             {LastNamed(current_l, k)["name"] : k \in KeysIn(current_l) \ KeysIn(desired_l)}
       /\ Range(d.update) = {LastNamed(desired_l, k)["name"] : k \in differ}
       /\ LoweredNames(d.create) \cap LoweredNames(d.update) = {}
       /\ LoweredNames(d.create) \cap LoweredNames(d.delete) = {}
       /\ LoweredNames(d.update) \cap LoweredNames(d.delete) = {}
       /\ \A k \in KeysIn(desired_l) \ (LoweredNames(d.create) \cup LoweredNames(d.update)) :
             /\ k \in KeysIn(current_l)
             /\ normalize_for_diff(LastNamed(desired_l, k))
                   = normalize_for_diff(LastNamed(current_l, k))

\* C9: diff_named_entities, and diff_workspace for each entity type, put in
\* create the desired names absent from current, in delete the current names
\* absent from desired, in update the names in both whose canonical forms
\* differ; the three lists are pairwise disjoint, and a desired name in
\* neither create nor update is canonically equal to its current counterpart.
C9_DiffNamedEntities ==
    (mgr = "workflow" /\ pc = "diffed") =>
        \A c \in Collections :
            DiffAsClaimed(desired[c], current_snapshot[c], diff_out[c])

C9_Witness ==
    /\ mgr = "workflow" /\ pc = "diffed"
    /\ \E c \in Collections :
          /\ diff_out[c].create # <<>>
          /\ diff_out[c].update # <<>>
          /\ diff_out[c].delete # <<>>

\* C10: diff_entities_by_name matches desired and current entities by the
\* trimmed, case-insensitive name: two entities whose names differ only in
\* letter case or surrounding whitespace are one entity, in neither create
\* nor delete.
C10_DiffMatchesNamesCaseInsensitively ==
    (mgr = "container" /\ pc = "diffed") =>
        \A c \in Collections :
           \A i \in 1..Len(desired[c]) : \A j \in 1..Len(current_snapshot[c]) :
              ( /\ HasName(desired[c][i]) /\ HasName(current_snapshot[c][j])
                /\ LowerName(desired[c][i]["name"])
                      = LowerName(current_snapshot[c][j]["name"]) )
              => /\ Strip(desired[c][i]["name"]) \notin Range(diff_out[c].create)
                 /\ Strip(current_snapshot[c][j]["name"]) \notin Range(diff_out[c].delete)

\* the calls a step adds to the log
NewCalls == SubSeq(log', Len(log) + 1, Len(log'))

\* the step records name in the list cat of the type coll, and nowhere else
RecordsOnly(coll, cat, name) ==
    \A k \in {"created", "updated", "noop"} :
        Count(summary'[coll][k], name) = Count(summary[coll][k], name)
                                           + IF k = cat THEN 1 ELSE 0

\* what the claim says of one upsert of entity in the type coll
UpsertAsClaimed(coll, entity) ==
    LET name == Strip(entity["name"])
        current == StoreList(store, coll)
        named == {i \in 1..Len(current) :
                     HasKey(current[i], "name") /\ Strip(current[i]["name"]) = name}
    IN IF named = {}
       THEN /\ err' = "none"
            /\ RecordsOnly(coll, "created", name)
            /\ IF dry_run THEN NewCalls = <<>>
               ELSE /\ Len(NewCalls) = 1
                    /\ NewCalls[1].op = "create" /\ NewCalls[1].coll = coll
       ELSE LET existing == current[CHOOSE i \in named : \A j \in named : i =< j]
            IN IF WithoutKeys(existing, READ_ONLY_FIELDS(coll))
                    = WithoutKeys(entity, READ_ONLY_FIELDS(coll))
               THEN /\ err' = "none"
                    /\ RecordsOnly(coll, "noop", name)
                    /\ NewCalls = <<>>
               ELSE IF dry_run
               THEN /\ err' = "none"
                    /\ RecordsOnly(coll, "updated", name)
                    /\ NewCalls = <<>>
               ELSE \* the claim speaks of an existing entity that has a path
                    HasKey(existing, "path") =>
                       /\ err' = "none"
                       /\ RecordsOnly(coll, "updated", name)
                       /\ Len(NewCalls) = 1
                       /\ NewCalls[1].op = "update" /\ NewCalls[1].coll = coll
                       /\ NewCalls[1].path = existing["path"]

ServerManagedFields(coll) ==
    {"accountId", "containerId", "workspaceId", IdKey(coll), "path", "fingerprint",
     "tagManagerUrl"}

\* C12: normalize_for_diff ignores every server-managed field (the parent
\* ids, the type's id, path, fingerprint, tagManagerUrl): a desired and a
\* current entity of one name that differ only in those fields are not
\* reported as an update by diff_workspace.
C12_ServerManagedFieldsIgnored ==
    (mgr = "workflow" /\ pc = "diffed") =>
        \A c \in Collections :
           \A k \in KeysIn(desired[c]) \cap KeysIn(current_snapshot[c]) :
              WithoutKeys(LastNamed(desired[c], k), ServerManagedFields(c))
                 = WithoutKeys(LastNamed(current_snapshot[c], k), ServerManagedFields(c))
              => k \notin LoweredNames(diff_out[c].update)

\* a tag that gives a role by names and by ids at once
GivesBothForms(tag) ==
    \/ HasKey(tag, "firingTriggerNames") /\ HasKey(tag, "firingTriggerId")
    \/ HasKey(tag, "blockingTriggerNames") /\ HasKey(tag, "blockingTriggerId")

\* the call is over: it returned or it raised
CallOver == pc \in {"done", "raised"}

\* C13: when a desired tag gives both firingTriggerNames and firingTriggerId
\* (or both blocking forms), sync_workspace raises and no create, update or
\* delete is issued during the call. Stated for a tag that is the last of
\* its name in the desired list.
C13_AmbiguousTagRaisesBeforeAnyCall ==
    (mgr = "workflow" /\ CallOver /\ run = "first"
       /\ \E i \in 1..Len(DesiredIndex("tags")) : GivesBothForms(DesiredIndex("tags")[i].e))
    => (err # "none" /\ log = <<>>)

\* C14: sync_workspace creates a tag only if the tag, its references
\* resolved, has a non-empty firingTriggerId list: every tag body sent to
\* create, and every tag a dry run reports as created, has one.
C14_CreatedTagHasFiringTrigger ==
    mgr = "workflow" =>
        /\ \A i \in 1..Len(log) :
              (log[i].op = "create" /\ log[i].coll = "tags")
                 => /\ HasKey(log[i].body, "firingTriggerId")
                    /\ log[i].body["firingTriggerId"] # <<>>
        /\ \A i \in 1..Len(DesiredIndex("tags")) :
              LET tag == Compared("tags", DesiredIndex("tags")[i].e)
              IN (pc \in {"deletes", "done"}
                    /\ Count(summary["tags"].created, tag["name"]) > 0)
                 => /\ HasKey(tag, "firingTriggerId")
                    /\ tag["firingTriggerId"] # <<>>

\* the names a tag lists for its firing and blocking triggers
ReferencedNames(tag) ==
    (IF HasKey(tag, "firingTriggerNames") THEN Range(tag["firingTriggerNames"]) ELSE {})
    \cup (IF HasKey(tag, "blockingTriggerNames") THEN Range(tag["blockingTriggerNames"])
          ELSE {})

\* the tags the sync examines: the last of each name, one form per role
ExaminedTags ==
    {DesiredIndex("tags")[i].e : i \in 1..Len(DesiredIndex("tags"))}

\* the names a tag lists that the trigger name-to-id map lacks, trimmed and
\* without regard to case; the blank names left out or not
Unresolved(tag, blank_skipped) ==
    {n \in ReferencedNames(tag) :
        /\ LowerName(n) \notin DOMAIN trigger_name_to_id
        /\ blank_skipped => Strip(n) # <<>>}

\* the sync never gets past, nor sends a create or update for, a tag with
\* an unresolved name; a missing-reference error quotes such a tag and such
\* a name of it
UnresolvedNamesFail(blank_skipped) ==
    mgr = "workflow" =>
        /\ \A tag \in ExaminedTags :
              (~GivesBothForms(tag) /\ Unresolved(tag, blank_skipped) # {}) =>
                 /\ pc \notin {"deletes", "done"}
                 /\ \A i \in 1..Len(log) :
                       (IsUpsert(log[i]) /\ log[i].coll = "tags")
                          => log[i].body["name"] # tag["name"]
        /\ err = "missing_reference" =>
              \E tag \in ExaminedTags :
                 /\ err_args.tag = tag["name"]
                 /\ err_args.trigger \in Unresolved(tag, blank_skipped)

\* C15 as stated: every name a tag lists is looked up, trimmed and
\* case-insensitively, in the trigger name-to-id map; a name that does not
\* resolve makes the sync fail with an error naming the trigger and the tag,
\* and no create or update is issued for that tag.
C15_UnresolvedNameFailsSync == UnresolvedNamesFail(FALSE)

\* C15 amended: the same for every name that is not blank; a blank name is
\* skipped.
C15_UnresolvedNonBlankNameFailsSync == UnresolvedNamesFail(TRUE)

C15_Witness ==
    /\ mgr = "workflow" /\ pc = "raised" /\ err = "missing_reference"
    /\ err_args.trigger = NameT
    /\ log # <<>>

\* the ids the map gives for the names of a list, in the list's order; the
\* blank names counted (as not mapped) or left out
MappedIds(names, blank_skipped) ==
    LET looked_up == IF blank_skipped
                     THEN SelectSeq(names, LAMBDA n : Strip(n) # <<>>)
                     ELSE names
    IN [i \in 1..Len(looked_up) |->
           IF LowerName(looked_up[i]) \in DOMAIN trigger_name_to_id
           THEN trigger_name_to_id[LowerName(looked_up[i])]
           ELSE 0]

\* what the claim says of one role of the resolved tag
RoleResolved(tag, out, names_key, id_key, blank_skipped) ==
    IF HasKey(tag, names_key)
    THEN /\ HasKey(out, id_key)
         /\ out[id_key] = MappedIds(tag[names_key], blank_skipped)
         /\ ~HasKey(out, names_key)
    ELSE /\ HasKey(out, id_key) <=> HasKey(tag, id_key)
         /\ HasKey(tag, id_key) => out[id_key] = tag[id_key]

TagResolvedAsClaimed(blank_skipped) ==
    (pc = "resolved" /\ err = "none") =>
        LET tag == desired.tags[1]
            out == diff_out
            role_keys == IdListKeys \cup NameListKeys
        IN /\ RoleResolved(tag, out, "firingTriggerNames", "firingTriggerId", blank_skipped)
           /\ RoleResolved(tag, out, "blockingTriggerNames", "blockingTriggerId",
                           blank_skipped)
           /\ DOMAIN out \ role_keys = DOMAIN tag \ role_keys
           /\ \A k \in DOMAIN tag \ role_keys : out[k] = tag[k]

\* C16 as stated: a successful _tag_with_resolved_triggers replaces each
\* name list by the id list with one mapped id per listed name in the same
\* order, removes the name list, leaves every other field unchanged, and
\* leaves the id field of a role with neither list absent.
C16_NamesReplacedByIds == TagResolvedAsClaimed(FALSE)

\* C16 amended: the same with one mapped id per listed name that is not
\* blank; a blank name gives no id.
C16_NonBlankNamesReplacedByIds == TagResolvedAsClaimed(TRUE)

C16_Witness ==
    /\ pc = "resolved" /\ err = "none"
    /\ HasKey(desired.tags[1], "firingTriggerNames")
    /\ diff_out["firingTriggerId"] = <<2, 1>>
    /\ ~HasKey(diff_out, "blockingTriggerId")

\* ---------------------------------------------------------------------
\* Updates of sync_workspace: the path and the fingerprint they carry
\* ---------------------------------------------------------------------

\* the entities of a type as the list call at the start of the step's phase
\* returns them, by lower-cased name
ListedAtPhaseStart(coll) == index_by_name(StoreList(store, coll))

\* the update calls a step adds for the entity of a lower-cased name
NewUpdatesOf(coll, key) ==
    {i \in 1..Len(NewCalls) :
        /\ NewCalls[i].op = "update" /\ NewCalls[i].coll = coll
        /\ LowerName(NewCalls[i].body["name"]) = key}

\* an update call of the phase of coll is for an entity listed at the start
\* of the phase, goes to its path (the path built from its id when it is
\* listed without one) and carries its listed fingerprint
UpdateAsClaimed(coll, call) ==
    LET key == LowerName(call.body["name"])
        listed == ListedAtPhaseStart(coll)
        existing == IndexGet(listed, key)
    IN /\ call.coll = coll
       /\ IndexHas(listed, key)
       /\ \/ HasKey(existing, "path") /\ call.path = existing["path"]
          \/ /\ ~HasKey(existing, "path") /\ HasKey(existing, IdKey(coll))
             /\ call.path = PathOf(coll, existing[IdKey(coll)])
       /\ call.fingerprint = IF HasKey(existing, "fingerprint")
                             THEN existing["fingerprint"] ELSE "None"

\* a desired entity whose update the rule of sync_workspace asks for while
\* the entity listed under its name has neither path nor id
UpdateWithoutTarget(coll, e) ==
    LET key == LowerName(e["name"])
        listed == ListedAtPhaseStart(coll)
        existing == IndexGet(listed, key)
    IN /\ ~dry_run /\ update_existing
       /\ IndexHas(listed, key)
       /\ ~HasKey(existing, "path") /\ ~HasKey(existing, IdKey(coll))
       /\ normalize_for_diff(Compared(coll, e)) # normalize_for_diff(existing)

\* C17: every update call of WorkspaceWorkflowManager.sync_workspace targets
\* the path of the existing entity matched by name and carries the
\* fingerprint that entity had in the list fetched at the start of its
\* phase; when the existing entity has neither path nor id the sync raises
\* and issues no update for it.
C17_UpdateTargetsListedEntity ==
    [][mgr = "workflow" =>
          \A c \in Collections :
             pc = c =>
                /\ \A i \in 1..Len(NewCalls) :
                      NewCalls[i].op = "update" => UpdateAsClaimed(c, NewCalls[i])
                /\ \A i \in 1..Len(DesiredIndex(c)) :
                      UpdateWithoutTarget(c, DesiredIndex(c)[i].e) =>
                         /\ pc' = "raised"
                         /\ NewUpdatesOf(c, DesiredIndex(c)[i].k) = {}]_vars

\* a live sync updated a variable that was listed with its id but no path
C17_Witness ==
    /\ mgr = "workflow" /\ ~dry_run /\ run = "first" /\ pc = "done"
    /\ \E i \in 1..Len(log) :
          /\ log[i].op = "update" /\ log[i].coll = "variables"
          /\ log[i].path = PathOf("variables", 1) /\ log[i].fingerprint = "fp"

\* a live sync stopped at a variable listed with neither path nor id
C17_RaisedWithoutTarget ==
    /\ mgr = "workflow" /\ pc = "raised" /\ err = "missing_path"
    /\ log = <<>>

\* ---------------------------------------------------------------------
\* Updates of the upserts: the fingerprint they carry
\* ---------------------------------------------------------------------

\* C18: every update call issued by upsert_tag, upsert_trigger and
\* upsert_variable carries the fingerprint observed for the existing entity
\* (every entity the store lists has one), so the store can reject an update
\* that follows a concurrent change.
C18_UpsertPassesObservedFingerprint ==
    mgr = "container" =>
        \A i \in 1..Len(log) :
            log[i].op = "update" => log[i].fingerprint \in {"fp", "fp2"}

\* ---------------------------------------------------------------------
\* The update body of sync_workspace
\* ---------------------------------------------------------------------

\* every field the remote store manages, whatever the entity's type
AllServerManagedFields == UNION {ServerManagedFields(c) : c \in Collections}

\* b is the value v without the keys of managed, at every depth
RECURSIVE StrippedOf(_, _, _)
StrippedOf(b, v, managed) ==
    IF v.kind = "list"
    THEN /\ b.kind = "list" /\ Len(b.items) = Len(v.items)
         /\ \A i \in 1..Len(v.items) : StrippedOf(b.items[i], v.items[i], managed)
    ELSE IF v.kind = "map"
    THEN /\ b.kind = "map" /\ DOMAIN b.map = DOMAIN v.map \ managed
         /\ \A k \in DOMAIN b.map : StrippedOf(b.map[k], v.map[k], managed)
    ELSE b = v

\* b is the deep merge of the desired value d into the existing value c,
\* less the keys of managed: a desired None, scalar or list stands in place
\* of the existing value, two mappings are merged key by key, a key of the
\* existing mapping alone keeps its value
RECURSIVE DeepMergeOf(_, _, _, _)
DeepMergeOf(b, c, d, managed) ==
    IF c.kind # "map" \/ d.kind # "map" THEN StrippedOf(b, d, managed)
    ELSE /\ b.kind = "map"
         /\ DOMAIN b.map = (DOMAIN c.map \cup DOMAIN d.map) \ managed
         /\ \A k \in DOMAIN b.map :
               IF k \notin DOMAIN d.map THEN StrippedOf(b.map[k], c.map[k], managed)
               ELSE IF k \notin DOMAIN c.map THEN StrippedOf(b.map[k], d.map[k], managed)
               ELSE DeepMergeOf(b.map[k], c.map[k], d.map[k], managed)

\* C19: the update body built by sync_workspace is the deep merge of the
\* desired entity into the existing one (desired keys overwrite, a desired
\* null stays an explicit null, nested mappings are merged recursively,
\* nested lists are replaced wholesale, keys of the existing entity alone
\* are retained) with the server-managed fields stripped.
C19_UpdateBodyIsStrippedDeepMerge ==
    pc = "merged" =>
        DeepMergeOf(diff_out, current_snapshot, desired, AllServerManagedFields)

\* the same with the fields workflow_manager strips, which leave out the
\* display URL
UpdateBodyIsDeepMergeLessDynamicFields ==
    pc = "merged" => DeepMergeOf(diff_out, current_snapshot, desired, DYNAMIC_FIELDS)

\* ---------------------------------------------------------------------
\* publish_from_workspace
\* ---------------------------------------------------------------------

\* C20: publish_from_workspace with dry_run=True returns the intent record
\* without contacting the remote store: no workspace list or create call, no
\* create-version call and no publish call is made.
C20_DryRunPublishContactsNothing ==
    (mgr = "workflow" /\ dry_run /\ pc = "done" /\ frame # <<>>) =>
        /\ log = <<>>
        /\ diff_out = [dryRun |-> TRUE, action |-> "publish",
                       workspacePath |-> frame.workspace_path,
                       versionName |-> "Release"]

\* the create-version calls and the publish calls of the log
CreateVersionCalls == {i \in 1..Len(log) : log[i].op = "create_version"}

PublishCalls == {i \in 1..Len(log) : log[i].op = "publish"}

\* the path of the version in a create-version answer: the path of its
\* containerVersion, or of the answer itself when that is the version
ReturnedVersionPath(reply) ==
    LET version == IF HasKey(reply, "containerVersion")
                   THEN reply["containerVersion"] ELSE reply
    IN IF HasKey(version, "path") THEN version["path"] ELSE NoPath

\* C21: a live publish (publish_from_workspace, publish_workspace) issues
\* one create-version call and then one publish call, whose path is the
\* version path the create-version call returned; when the answer carries
\* no version path the publish raises and issues no publish call.
C21_LivePublishCreatesThenPublishes ==
    (frame # <<>> /\ ~dry_run) =>
        /\ Cardinality(CreateVersionCalls) =< 1 /\ Cardinality(PublishCalls) =< 1
        /\ \A j \in PublishCalls :
              /\ \E i \in CreateVersionCalls : i < j
              /\ log[j].path = ReturnedVersionPath(container.version_reply)
        /\ pc = "done" =>
              Cardinality(CreateVersionCalls) = 1 /\ Cardinality(PublishCalls) = 1
        /\ (CreateVersionCalls # {}
              /\ ReturnedVersionPath(container.version_reply) = NoPath) =>
              pc = "raised" /\ PublishCalls = {}

\* a live publish returned after its two calls
C21_Witness ==
    /\ frame # <<>> /\ ~dry_run /\ pc = "done"
    /\ Cardinality(CreateVersionCalls) = 1
    /\ \E j \in PublishCalls : log[j].path = VersionPath

\* a live publish raised on an answer without version path
C21_RaisedWithoutVersionPath ==
    /\ frame # <<>> /\ ~dry_run /\ pc = "raised" /\ err = "missing_version_path"
    /\ ReturnedVersionPath(container.version_reply) = NoPath

\* the calls of a kind no publish makes: anything but listing or creating
\* the workspace, creating the version and publishing it
OtherCalls ==
    {i \in 1..Len(log) :
        log[i].op \notin {"list_workspaces", "create_workspace", "create_version",
                          "publish"}}

\* C22: when the publish call fails after the version was created, the
\* error reaches the caller and no compensating or repeated call is made
\* (no deletion, no second create-version, no second publish): the version
\* stays in the container, unpublished.
C22_FailedPublishLeavesVersion ==
    (frame # <<>> /\ PublishCalls # {} /\ container.publish_fails) =>
        /\ pc = "raised" /\ err = "remote_error"
        /\ diff_out = <<>>
        /\ Cardinality(CreateVersionCalls) = 1 /\ Cardinality(PublishCalls) = 1
        /\ PublishCalls = {Len(log)}
        /\ OtherCalls = {}
        /\ container.versions = <<container.version_reply>>
        /\ container.published = <<>>

C22_Witness ==
    /\ frame # <<>> /\ pc = "raised" /\ err = "remote_error"
    /\ PublishCalls # {} /\ container.versions # <<>>

\* the path of the entity a mutating call acted on
TargetOf(call) == IF call.op = "create" THEN call.ret["path"] ELSE call.path

\* the store's entities of a call's collection that have the call's target path
StoredAtTarget(call) ==
    {store[call.coll][i].e : i \in {j \in 1..Len(store[call.coll]) :
        /\ HasKey(store[call.coll][j].e, "path")
        /\ store[call.coll][j].e["path"] = TargetOf(call)}}

\* the store still shows what the call did
StaysApplied(call) ==
    CASE call.op = "create" -> call.ret \in StoredAtTarget(call)
      [] call.op = "update" ->
            \E e \in StoredAtTarget(call) :
                \A k \in DOMAIN call.body : HasKey(e, k) /\ e[k] = call.body[k]
      [] call.op = "delete" -> StoredAtTarget(call) = {}

\* C23: an error raised during sync_workspace ends the call with that error
\* and rolls nothing back: whenever the call has raised (and at every point
\* before), the store still shows every create, update and delete the call
\* issued, no entity received a second, compensating call, a rejected remote
\* call is never swallowed (the call does not return normally past it), and
\* a remote error is raised exactly at the rejected call.
C23_ErrorPropagatesWithoutRollback ==
    /\ \A i \in 1..Len(log) : StaysApplied(log[i])
    /\ \A i, j \in 1..Len(log) :
          i < j => ~(log[i].coll = log[j].coll /\ TargetOf(log[i]) = TargetOf(log[j]))
    /\ pc = "done" => err = "none" /\ Len(log) < fail_at
    /\ pc = "raised" => err # "none"
    /\ err = "remote_error" => pc = "raised" /\ Len(log) + 1 = fail_at

\* a remote error in the tags phase, after a variable and a trigger mutation
C23_Witness ==
    /\ pc = "raised" /\ err = "remote_error"
    /\ \E i \in 1..Len(log) : log[i].coll = "variables"
    /\ \E i \in 1..Len(log) : log[i].coll = "triggers"

\* a reference error raised after mutations were applied
C23_WitnessReferenceError ==
    /\ pc = "raised" /\ err = "missing_reference" /\ log # <<>>

\* the trimmed, case-insensitive names of the desired list of a type
DesiredNamesOf(coll) ==
    {LowerName(desired[coll][i]["name"]) : i \in 1..Len(desired[coll])}

\* the entities of a type the sync call listed, with the path a call on each
\* of them uses
ListedWithPath(coll, entity_path) ==
    {CurrentIndexOf(coll)[i].e : i \in {j \in 1..Len(CurrentIndexOf(coll)) :
        entity_path_from_workspace(coll, CurrentIndexOf(coll)[j].e) = entity_path}}

\* C24: WorkspaceWorkflowManager.sync_workspace issues a delete call only
\* when delete_missing is set, and only for an entity it listed whose trimmed,
\* case-insensitive name is in no entry of the desired list of the same type;
\* no entity the same call created or updated is deleted.
C24_DeletesOnlyUndesiredWhenAsked ==
    mgr = "workflow" =>
        \A i \in 1..Len(log) : IsDelete(log[i]) =>
            /\ delete_missing
            /\ ListedWithPath(log[i].coll, log[i].path) # {}
            /\ \A e \in ListedWithPath(log[i].coll, log[i].path) :
                  LowerName(e["name"]) \notin DesiredNamesOf(log[i].coll)
            /\ \A j \in 1..Len(log) :
                  (IsUpsert(log[j]) /\ log[j].coll = log[i].coll)
                      => TargetOf(log[j]) # log[i].path

\* a sync that created an entity and deleted another of the same type, and
\* updated an entity
C24_Witness ==
    /\ mgr = "workflow" /\ pc = "done" /\ delete_missing
    /\ \E c \in Collections :
          /\ \E i \in 1..Len(log) : IsDelete(log[i]) /\ log[i].coll = c
          /\ \E i \in 1..Len(log) : log[i].op = "create" /\ log[i].coll = c
    /\ \E i \in 1..Len(log) : log[i].op = "update"

Categories == {"created", "updated", "deleted", "skipped"}

\* a list of names in case-insensitive order
SortedByLower(names) ==
    \A i, j \in 1..Len(names) : i < j => ~StrLess(Lower(names[j]), Lower(names[i]))

\* C25: in the summary WorkspaceWorkflowManager.sync_workspace returns, each
\* of the created, updated, deleted and skipped lists of a type is sorted
\* case-insensitively and holds each name once at most, and no name is in two
\* of the four lists of a type (names compared exactly, and also trimmed and
\* case-insensitively).
C25_SummaryListsSortedAndDisjoint ==
    (mgr = "workflow" /\ pc = "done") =>
        \A c \in Collections :
            /\ \A cat \in Categories :
                  /\ SortedByLower(summary[c][cat])
                  /\ \A i, j \in 1..Len(summary[c][cat]) :
                        i # j => LowerName(summary[c][cat][i])
                                     # LowerName(summary[c][cat][j])
            /\ \A cat1, cat2 \in Categories :
                  cat1 # cat2 =>
                      LoweredNames(summary[c][cat1]) \cap LoweredNames(summary[c][cat2]) = {}

\* a returned summary with two names in one list, which the desired list
\* holds in the other order
C25_Witness ==
    /\ mgr = "workflow" /\ pc = "done"
    /\ \E c \in Collections : \E cat \in Categories :
          /\ Len(summary[c][cat]) >= 2
          /\ Len(desired[c]) >= 2
          /\ StrLess(Lower(desired[c][2]["name"]), Lower(desired[c][1]["name"]))

\* a returned summary with names in two lists of one type
C25_WitnessTwoLists ==
    /\ mgr = "workflow" /\ pc = "done"
    /\ \E c \in Collections : \E cat1, cat2 \in Categories :
          cat1 # cat2 /\ summary[c][cat1] # <<>> /\ summary[c][cat2] # <<>>

----------------------------------------------------------------------------
(* Properties of the canonical forms *)

\* the list field of a canonicalized entity, and the entity with another list
ListOf(entity) == entity.map["parameter"].items

WithList(entity, l) == JMap([entity.map EXCEPT !["parameter"] = JList(l)])

AllMappings(l) == \A i \in 1..Len(l) : l[i].kind = "map"

\* the entities that differ from one only in the order of its list
Permuted(entity) ==
    LET n == Len(ListOf(entity))
    IN {WithList(entity, [i \in 1..n |-> ListOf(entity)[p[i]]]) :
           p \in {q \in [1..n -> 1..n] : \A i, j \in 1..n : i # j => q[i] # q[j]}}

\* C26: normalize_for_diff and canonicalize_for_diff are idempotent: applied
\* to its own result, each returns that result.
C26_CanonicalFormsIdempotent ==
    pc \in {"normalized_twice", "canonicalized_twice"} => diff_out.twice = diff_out.once

\* normalize_for_diff applied twice to an entity whose list it reordered and
\* whose path it stripped
C26_Witness ==
    /\ pc = "normalized_twice"
    /\ "path" \in DOMAIN current_snapshot.map
    /\ Len(ListOf(current_snapshot)) >= 2
    /\ \E i \in 1..Len(ListOf(current_snapshot)) :
          ListOf(diff_out.once)[i] # strip_value(ListOf(current_snapshot)[i])

\* canonicalize_for_diff applied twice to an entity whose list it reordered
C26_WitnessCanonicalize ==
    /\ pc = "canonicalized_twice"
    /\ Len(ListOf(current_snapshot)) >= 2
    /\ \E i \in 1..Len(ListOf(current_snapshot)) :
          ListOf(diff_out.once)[i]
              # canonicalize_for_diff(ListOf(current_snapshot)[i])

\* C27: for an entity whose list holds mappings only, every entity that
\* differs from it only in the order of that list has the same
\* normalize_for_diff and the same canonicalize_for_diff.
C27_MappingListOrderIgnored ==
    AllMappings(ListOf(current_snapshot)) =>
        /\ pc = "normalized" =>
              \A e \in Permuted(current_snapshot) : normalize_value(e) = diff_out.once
        /\ pc = "canonicalized" =>
              \A e \in Permuted(current_snapshot) :
                  canonicalize_for_diff(e) = diff_out.once

\* canonicalize_for_diff of a list of two mappings that differ after the
\* read-only fields are dropped, given in the order the result does not have
C27_Witness ==
    /\ pc = "canonicalized"
    /\ AllMappings(ListOf(current_snapshot))
    /\ Len(ListOf(current_snapshot)) = 2
    /\ ListOf(diff_out.once)[1] # ListOf(diff_out.once)[2]
    /\ ListOf(diff_out.once)[1] = canonicalize_for_diff(ListOf(current_snapshot)[2])

\* the same for normalize_for_diff
C27_WitnessNormalize ==
    /\ pc = "normalized"
    /\ AllMappings(ListOf(current_snapshot))
    /\ Len(ListOf(current_snapshot)) = 2
    /\ ListOf(diff_out.once)[1] # ListOf(diff_out.once)[2]
    /\ ListOf(diff_out.once)[1] = normalize_value(ListOf(current_snapshot)[2])

\* C28: canonicalize_for_diff keeps the order of a list that holds a scalar:
\* an entity that differs from another only in the order of such a list has
\* a different canonical form (and so is reported as an update).
C28_ScalarListOrderPreserved ==
    (pc = "canonicalized" /\ ~AllMappings(ListOf(current_snapshot))) =>
        \A e \in Permuted(current_snapshot) :
            e # current_snapshot => canonicalize_for_diff(e) # diff_out.once

----------------------------------------------------------------------------
(* Properties of the objects a sync call works on *)

\* C29: sync_workspace and diff_workspace do not modify the desired snapshot
\* the caller passed: through the resolution of a tag's trigger names, the
\* comparison, the merge into the listed tag, the stripping of the body and
\* the store's call, the caller's tag and every object it holds keep the
\* value they had when the call began.
C29_DesiredSnapshotNotModified == ValueOf(heap, frame.tag) = desired

\* a finished update of a tag given with trigger names, whose merged entity
\* held the caller's own parameter list
C29_Witness ==
    /\ pc = "done"
    /\ "merged" \in DOMAIN frame
    /\ HasKey(heap[frame.tag.ptr].map, "firingTriggerNames")
    /\ HasKey(heap[frame.desired_tag.ptr].map, "firingTriggerId")
    /\ HasKey(heap[frame.tag.ptr].map, "parameter")
    /\ IsListVal(heap, heap[frame.tag.ptr].map["parameter"])
    /\ heap[frame.merged.ptr].map["parameter"] = heap[frame.tag.ptr].map["parameter"]

----------------------------------------------------------------------------
(* Properties of the listing *)

\* the tokens of the store's pages from a token on, each page's token
\* leading to the next, followed for at most fuel pages
RECURSIVE TokenChain(_, _)
TokenChain(token, fuel) ==
    IF fuel = 0 THEN <<>>
    ELSE LET following == IF HasKey(container.pages[token], "nextPageToken")
                          THEN container.pages[token]["nextPageToken"] ELSE "None"
         IN <<token>> \o (IF following \in PageTokens
                          THEN TokenChain(following, fuel - 1) ELSE <<>>)

\* the store's pages end: following the tokens from the first page leads to
\* a page without a token (one more page than there are tokens would be a
\* page come twice)
PagesEnd ==
    LET chain == TokenChain("None", Cardinality(PageTokens) + 1)
        last == container.pages[chain[Len(chain)]]
    IN ~HasKey(last, "nextPageToken") \/ last["nextPageToken"] \notin PageTokens

RECURSIVE ItemsAlong(_)
ItemsAlong(chain) ==
    IF chain = <<>> THEN <<>>
    ELSE (IF HasKey(container.pages[Head(chain)], "items")
          THEN container.pages[Head(chain)]["items"] ELSE <<>>)
             \o ItemsAlong(Tail(chain))

\* what a listing that returned has done
Drained ==
    pc = "done" =>
        /\ PagesEnd
        /\ log = TokenChain("None", Cardinality(PageTokens) + 1)
        /\ frame.items = ItemsAlong(log)

\* C30: a listing (list_all_pages and the tag manager's loop) asks for the
\* first page without a token and for each further page with the token of
\* the page before, each page once; when it returns, the last page had no
\* token and the items are those of all pages in the order received.  It
\* returns if the store's pages end, and never returns if they do not.
C30_ListingDrainsPagination ==
    /\ [](Drained /\ \A i \in 1..Len(log) :
              log[i] = IF i = 1 THEN "None"
                       ELSE container.pages[log[i - 1]]["nextPageToken"])
    /\ (PagesEnd => <>(pc = "done"))
    /\ (~PagesEnd => [](pc # "done"))

\* a listing that returned after three pages with items
C30_Witness ==
    /\ pc = "done" /\ Len(log) = 3
    /\ Len(frame.items) >= 3
    /\ \E i \in 1..2 : frame.items[i].id > frame.items[i + 1].id

\* a listing of pages that do not end, still asking after a page came twice
C30_WitnessEndless ==
    /\ pc = "fetch" /\ Len(log) = MaxRequests /\ ~PagesEnd

----------------------------------------------------------------------------
(* Properties of execute_with_retry *)

Retryable(outcome) ==
    \/ outcome.type = "HttpError" /\ outcome.status \in {429, 500, 502, 503, 504}
    \/ outcome.type \in {"TimeoutError", "ConnectionError", "OSError"}

\* C31: execute_with_retry invokes fn retries + 1 times at most and ends: it
\* returns the result of the first invocation that succeeds, and that is the
\* last invocation; it raises a non-retryable error at once, and the error
\* of the (retries + 1)-th invocation when that one fails; every invocation
\* before the last failed with a retryable error.
C31_RetryBoundedAndTerminates ==
    /\ [](/\ Len(log) =< frame.retries + 1
          /\ \A i \in 1..(Len(log) - 1) : log[i].type # "ok" /\ Retryable(log[i])
          /\ pc = "done" =>
                /\ log[Len(log)].type = "ok"
                /\ diff_out = [result_of |-> Len(log)]
          /\ pc = "raised" =>
                /\ log[Len(log)].type # "ok"
                /\ err = log[Len(log)].type /\ err_args = <<Len(log)>>
                /\ ~Retryable(log[Len(log)]) \/ Len(log) = frame.retries + 1
          /\ pc = "sleep" =>
                Retryable(log[Len(log)]) /\ Len(log) =< frame.retries)
    /\ <>(pc \in {"done", "raised"})

\* a call that returned on its last allowed attempt, after retries
C31_Witness ==
    /\ pc = "done" /\ frame.retries >= 2 /\ Len(log) = frame.retries + 1

\* a call that raised the retryable error of its last allowed attempt
C31_WitnessExhausted ==
    /\ pc = "raised" /\ frame.retries >= 1 /\ Len(log) = frame.retries + 1
    /\ Retryable(log[Len(log)])

\* a call that raised a non-retryable error after a retry
C31_WitnessNotRetryable ==
    /\ pc = "raised" /\ Len(log) = 2 /\ frame.retries >= 2
    /\ ~Retryable(log[2])

\* C36: a create request is sent at most once per created entity: a create
\* that failed, or whose response was lost, is not sent again.
C36_CreateSentAtMostOnce ==
    mgr = "create_variable" => Len(log) =< 1

----------------------------------------------------------------------------
(* Properties of the summary of ContainerManager.sync_workspace *)

TimesRecorded(coll, name) ==
    Count(summary[coll].created, name) + Count(summary[coll].updated, name)
        + Count(summary[coll].noop, name)

DeletedApartFromUpserted(coll) ==
    \A j \in 1..Len(summary[coll].deleted) :
        TimesRecorded(coll, summary[coll].deleted[j]) = 0

\* C32 as stated: in the summary ContainerManager.sync_workspace returns,
\* the trimmed name of every desired entity is once in created, updated and
\* noop taken together, and no deleted name is in any of the three.
C32_EachDesiredNameRecordedOnce ==
    (mgr = "container" /\ pc = "done") =>
        \A c \in Collections :
           /\ \A i \in 1..Len(desired[c]) :
                 TimesRecorded(c, StrippedName(desired[c][i])) = 1
           /\ DeletedApartFromUpserted(c)

----------------------------------------------------------------------------
(* The summary of a live WorkspaceWorkflowManager.sync_workspace against    *)
(* the calls it made                                                        *)

\* the call is about the entity of that name: a create or an update carries
\* the name in its body, a delete goes to the path of a listed entity
CallIsFor(call, name) ==
    IF IsDelete(call)
    THEN \E e \in ListedWithPath(call.coll, call.path) :
            LowerName(e["name"]) = LowerName(name)
    ELSE LowerName(call.body["name"]) = LowerName(name)

CallsFor(coll, op, name) ==
    Cardinality({i \in 1..Len(log) :
        log[i].coll = coll /\ log[i].op = op /\ CallIsFor(log[i], name)})

ListFor(op) ==
    CASE op = "create" -> "created" [] op = "update" -> "updated"
      [] op = "delete" -> "deleted"

\* C33 as stated: after a live sync_workspace that returned, every name in
\* created, updated or deleted has exactly one create, update or delete call
\* for that entity, and every call is for an entity that is listed so.
C33_SummaryMatchesCalls ==
    (mgr = "workflow" /\ pc = "done" /\ ~dry_run) =>
        \A c \in Collections :
           /\ \A op \in {"create", "update", "delete"} :
                 \A i \in 1..Len(summary[c][ListFor(op)]) :
                    CallsFor(c, op, summary[c][ListFor(op)][i]) = 1
           /\ \A i \in 1..Len(log) : log[i].coll = c =>
                 \E j \in 1..Len(summary[c][ListFor(log[i].op)]) :
                    CallIsFor(log[i], summary[c][ListFor(log[i].op)][j])

----------------------------------------------------------------------------
(* sync_workspace and the workspace it names *)

MutatingOps == {"create_workspace", "create", "update", "delete"}

\* C34: a dry-run sync_workspace makes no mutating call of any kind; the
\* workspace it names is not created when the container has none of that
\* name.
C34_DryRunSyncMutatesNothing ==
    (mgr = "workflow" /\ dry_run) =>
        \A i \in 1..Len(log) : log[i].op \notin MutatingOps

----------------------------------------------------------------------------
(* Two concurrent sync_workspace calls *)

\* the trimmed, case-insensitive names of the entities a collection holds
StoredNames(coll) ==
    [i \in 1..Len(store[coll]) |-> LowerName(store[coll][i].e["name"])]

\* C35: when two live sync_workspace calls with the same desired snapshot
\* have both ended on the same workspace, whatever their interleaving, no
\* collection holds two entities of one trimmed, case-insensitive name.
C35_ConcurrentSyncsKeepNamesUnique ==
    (pc = "running" /\ \A c \in Callers : frame[c].phase \in {"done", "raised"}) =>
        \A coll \in Collections : \A i, j \in 1..Len(store[coll]) :
            StoredNames(coll)[i] = StoredNames(coll)[j] => i = j

----------------------------------------------------------------------------
(* A dry-run sync, a diff, and the export of a workspace *)

\* C37: for variables and triggers, the created, updated and deleted lists
\* of a dry-run sync_workspace with update_existing and delete_missing set
\* are the create, update and delete lists diff_workspace_against_snapshot
\* gives for the same desired snapshot on the same workspace.
C37_DryRunSummaryEqualsDiff ==
    (pc = "compared" /\ update_existing /\ delete_missing) =>
        \A c \in {"variables", "triggers"} :
            /\ summary[c].created = diff_out[c].create
            /\ summary[c].updated = diff_out[c].update
            /\ summary[c].deleted = diff_out[c].delete

\* a comparison in which the three lists of a type are all non-empty
C37_Witness ==
    /\ pc = "compared"
    /\ \E c \in {"variables", "triggers"} :
          /\ summary[c].created # <<>> /\ summary[c].updated # <<>>
          /\ summary[c].deleted # <<>>

\* a comparison on a workspace that lists one name twice, with two names
\* reported in one list
C37_WitnessSharedName ==
    /\ pc = "compared"
    /\ \E c \in {"variables", "triggers"} :
          /\ Len(store[c]) = 2 /\ Len(index_by_name(StoreList(store, c))) = 1
          /\ Len(summary[c].created) = 2

EmptyDiff == [create |-> <<>>, update |-> <<>>, delete |-> <<>>]

\* C38: the diff of a workspace against its own export is empty: no create,
\* update or delete for tags, triggers and variables.
C38_DiffOfOwnExportIsEmpty ==
    pc = "exported" =>
        \A c \in Collections :
            /\ diff_out.against_snapshot[c] = EmptyDiff
            /\ diff_out.against_listed[c] = EmptyDiff

\* an export of a workspace that lists two entities of one name, which
\* differ, with server-managed fields
C38_Witness ==
    /\ pc = "exported"
    /\ \E c \in Collections :
          /\ Len(store[c]) = 2 /\ Len(index_by_name(StoreList(store, c))) = 1
          /\ normalize_for_diff(store[c][1].e) # normalize_for_diff(store[c][2].e)
          /\ \E i \in 1..2 : HasKey(store[c][i].e, "path")

=============================================================================
